---- MODULE Spec2Model ----
(***************************************************************************)
(* InstantNav: the background side (service worker, Prefetcher,            *)
(* ContextManager), the trust list and the content scripts (CursorTracker, *)
(* LinkPredictor), as a state machine.                                     *)
(*                                                                         *)
(* JavaScript runs one task at a time.  An async function runs without     *)
(* interruption until it awaits a host call (chrome.scripting.             *)
(* executeScript, chrome.storage.local.get); the await of a promise that   *)
(* is already settled only yields to microtasks and lets no other message, *)
(* event or timer in.  Each action below is therefore one such             *)
(* uninterrupted run: from a message, event or host completion to the next *)
(* suspension at a host call or to the end of the handler.                 *)
(*                                                                         *)
(* Fractions of the source are scaled to integers: battery level and       *)
(* memory use in percent (0.2 is 20), downlink in tenths of Mbit/s (5 is   *)
(* 50).  Times are milliseconds.                                           *)
(***************************************************************************)
EXTENDS Integers, Sequences, FiniteSets, TLC

VARIABLES
    prefetchedUrls,          \* Prefetcher.prefetchedUrls: key -> [type, timestamp]
    activeSpeculationRules,  \* Prefetcher.activeSpeculationRules: Seq of [type, url, timestamp]
    prefetchState,           \* chrome.storage.local 'prefetchState' (NoState when absent)
    loadPending,             \* Prefetcher._loadState has not settled yet
    handlers,                \* _handlePredictions invocations suspended at a host call
    received,                \* number of candidates received so far
    stats,                   \* InstantNavService.stats.totalPrefetches
    now,                     \* Date.now()
    conn,                    \* navigator.connection
    currentMode,             \* ContextManager.currentMode
    effectiveMode,           \* ContextManager._effectiveMode
    contextData,             \* ContextManager.contextData
    prefetchMode,            \* chrome.storage.local 'prefetchMode'
    monitoring,              \* ContextManager._startMonitoring got past its await
    perfNow,                 \* performance.now() in the page, ms
    position,                \* CursorTracker.position
    velocity,                \* CursorTracker.velocity, px/s
    acceleration,            \* CursorTracker.acceleration, px/s^2
    direction,               \* CursorTracker.direction
    lastPosition,            \* CursorTracker.lastPosition
    lastVelocity,            \* CursorTracker.lastVelocity
    lastTimestamp,           \* CursorTracker.lastTimestamp
    delivered,               \* the data passed to the subscribers, in order
    linkMap,                 \* LinkPredictor.links (a Map), in insertion order
    scores,                  \* LinkPredictor.scores: URL -> [score, timestamp]
    graceTimers,             \* LinkPredictor.graceTimers: URL -> time the timeout fires
    historyCache,            \* LinkPredictor.historyCache: URL -> score
    lookups,                 \* GET_HISTORY_SCORE requests without a response yet
    lastBatchTime,           \* LinkPredictor.lastBatchTime
    isCharging,              \* LinkPredictor.isCharging
    sent,                    \* the PREDICTION_UPDATE messages sent, in order
    subscribed,              \* new LinkPredictor() returned and calculateScores is subscribed
    trustLevels,             \* TrustList.trustLevels: domain -> level
    storedTrustLevels,       \* chrome.storage.local 'trustLevels'
    trustLoadPending,        \* TrustList.load() awaits the storage
    battery,                 \* the page's BatteryManager: charging, and whether the
                             \* predictor's chargingchange listener is attached
    scrollSpeed,             \* how fast the user has been scrolling the page lately
    document                 \* the anchors document.querySelectorAll('a[href]') finds

pfVars  == <<prefetchedUrls, activeSpeculationRules, prefetchState, loadPending,
             handlers, received, stats>>
govVars == <<currentMode, effectiveMode, contextData, prefetchMode, monitoring>>
trkVars == <<position, velocity, acceleration, direction, lastPosition,
             lastVelocity, lastTimestamp, delivered>>
prdVars == <<linkMap, scores, graceTimers, historyCache, lookups, lastBatchTime,
             isCharging, sent, subscribed>>
cntVars == <<perfNow, trkVars, prdVars>>
trustVars == <<trustLevels, storedTrustLevels, trustLoadPending>>
hostVars == <<battery, scrollSpeed, document>>
vars    == <<pfVars, govVars, now, conn, cntVars, trustVars, hostVars>>

----------------------------------------------------------------------------
(* Bounds of the model. *)

MaxCandidates == 2    \* candidates received in a run, over all PREDICTION_UPDATE messages
MaxTicks      == 1    \* the clock stops after MaxTicks steps
MaxSamples    == 3    \* pointer samples the tracker accepts in a run
MaxResponses  == 1    \* history lookups answered in a run

----------------------------------------------------------------------------
(* URLs.  A URL string is modelled by its parts; two records are equal     *)
(* exactly when the strings are.  slash: the path ends in "/" (for the     *)
(* empty path: the string ends in "/" after the host).  frag: a "#..."     *)
(* part follows.  query: "" (none), "?" (a bare question mark) or "?q".    *)

Url(host, path, slash, query, frag) ==
    [host |-> host, path |-> path, slash |-> slash, query |-> query, frag |-> frag]

\* a Map or plain object: key -> value
EmptyMap == [k \in {} |-> 0]
MapSet(m, k, v) == [x \in (DOMAIN m) \cup {k} |-> IF x = k THEN v ELSE m[x]]
MapDelete(m, k) == [x \in (DOMAIN m) \ {k} |-> m[x]]

\* new URL(url) succeeds; a string that does not parse is modelled by a
\* record without host whose path holds the string
Parses(u) == u.host # ""

Unparsable(text) == Url("", text, FALSE, "", FALSE)

\* new URL(url).pathname: the root path is "/" whether or not it was written
Pathname(u) == [path |-> u.path, slash |-> IF u.path = "" THEN TRUE ELSE u.slash]

\* (mutant: the trailing slash is kept)
_normalize_KeepSlash(u) ==
    IF ~Parses(u) THEN u ELSE
    Url(u.host, u.path, Pathname(u).slash, IF u.query = "?" THEN "" ELSE u.query, FALSE)

_normalize(u) ==
    IF ~Parses(u) THEN u ELSE
    LET p    == Pathname(u)
        path == IF p.slash /\ p.path # "" THEN [p EXCEPT !.slash = FALSE] ELSE p
        \* new URL(url).search is empty for a bare "?"
        search == IF u.query = "?" THEN "" ELSE u.query
    IN  Url(u.host, path.path, path.slash, search, FALSE)

----------------------------------------------------------------------------
(* ContextManager *)

Modes == {"turbo", "balanced", "eco", "auto"}

\* (mutant: eco prefetches from a score of 55 on)
profiles_EcoLoose ==
    [turbo    |-> [name |-> "turbo", maxPrerender |-> 3, maxPrefetch |-> 10,
                   prerenderThreshold |-> 70, prefetchThreshold |-> 50,
                   preconnectThreshold |-> 30],
     balanced |-> [name |-> "balanced", maxPrerender |-> 1, maxPrefetch |-> 5,
                   prerenderThreshold |-> 80, prefetchThreshold |-> 60,
                   preconnectThreshold |-> 40],
     eco      |-> [name |-> "eco", maxPrerender |-> 0, maxPrefetch |-> 2,
                   prerenderThreshold |-> 100, prefetchThreshold |-> 55,
                   preconnectThreshold |-> 55]]

profiles ==
    [turbo    |-> [name |-> "turbo", maxPrerender |-> 3, maxPrefetch |-> 10,
                   prerenderThreshold |-> 70, prefetchThreshold |-> 50,
                   preconnectThreshold |-> 30],
     balanced |-> [name |-> "balanced", maxPrerender |-> 1, maxPrefetch |-> 5,
                   prerenderThreshold |-> 80, prefetchThreshold |-> 60,
                   preconnectThreshold |-> 40],
     eco      |-> [name |-> "eco", maxPrerender |-> 0, maxPrefetch |-> 2,
                   prerenderThreshold |-> 100, prefetchThreshold |-> 85,
                   preconnectThreshold |-> 70]]

Undefined == "undefined"

\* the constructor's contextData
InitContextData ==
    [battery |-> [charging |-> TRUE, level |-> 100],
     network |-> [type |-> "wifi", downlink |-> 100, saveData |-> FALSE],
     memory  |-> [usedPercent |-> 50]]

\* the mode _recalculateMode derives from a contextData
DerivedMode(cd) ==
    IF \/ (~cd.battery.charging /\ cd.battery.level < 20)
       \/ cd.network.saveData
       \/ cd.network.type = "2g"
       \/ cd.network.type = "slow-2g"
       \/ cd.memory.usedPercent > 80
    THEN "eco"
    ELSE IF /\ cd.battery.charging
            /\ (cd.network.type = "4g" \/ cd.network.downlink > 50)
            /\ cd.memory.usedPercent < 50
         THEN "turbo"
         ELSE "balanced"

\* _recalculateMode: the new _effectiveMode, given the mode and the contextData
_recalculateMode(mode, cd, eff) ==
    IF mode # "auto" THEN eff ELSE DerivedMode(cd)

\* the object _updateNetwork stores for a navigator.connection
NetworkOf(c) ==
    [type     |-> IF c.effectiveType = "" THEN "unknown" ELSE c.effectiveType,
     downlink |-> IF c.downlink = 0 THEN 100 ELSE c.downlink,
     saveData |-> c.saveData]

getProfileOf(mode, eff) ==
    LET m == IF mode = "auto"
             THEN (IF eff = Undefined THEN "balanced" ELSE eff)
             ELSE mode
    IN  profiles[m]

getProfile == getProfileOf(currentMode, effectiveMode)

\* (mutant: the mode is not validated)
setMode_AnyValue(mode) ==
    /\ currentMode' = mode
    /\ prefetchMode' = mode
    /\ effectiveMode' = _recalculateMode(mode, contextData, effectiveMode)
    /\ UNCHANGED <<contextData, monitoring>>

\* (mutant: the effective mode is not recalculated)
setMode_NoRecalc(mode) ==
    /\ IF mode \in Modes
       THEN /\ currentMode' = mode
            /\ prefetchMode' = mode
            /\ UNCHANGED effectiveMode
       ELSE UNCHANGED <<currentMode, prefetchMode, effectiveMode>>
    /\ UNCHANGED <<contextData, monitoring>>

\* setMode(mode): SET_MODE message
setMode(mode) ==
    /\ IF mode \in Modes
       THEN /\ currentMode' = mode
            /\ prefetchMode' = mode
            /\ effectiveMode' = _recalculateMode(mode, contextData, effectiveMode)
       ELSE UNCHANGED <<currentMode, prefetchMode, effectiveMode>>
    /\ UNCHANGED <<contextData, monitoring>>

\* _startMonitoring gets past `await navigator.getBattery()` (b is the
\* battery, or NoBattery when the call is absent or rejects), then reads the
\* connection and samples the memory (m, or NoMemory without performance.memory)
NoBattery == [charging |-> TRUE, level |-> -1]
NoMemory  == -1

_startMonitoring(b, m) ==
    /\ ~monitoring
    /\ monitoring' = TRUE
    /\ contextData' =
          [battery |-> IF b = NoBattery THEN contextData.battery ELSE b,
           network |-> IF conn.present THEN NetworkOf(conn) ELSE contextData.network,
           memory  |-> IF m = NoMemory THEN contextData.memory
                       ELSE [usedPercent |-> m]]
    /\ effectiveMode' = _recalculateMode(currentMode, contextData', effectiveMode)
    /\ UNCHANGED <<currentMode, prefetchMode>>

\* (mutant: the battery is stored without recalculating the mode)
_updateBattery_NoRecalc(b) ==
    /\ monitoring
    /\ contextData' = [contextData EXCEPT !.battery = b]
    /\ UNCHANGED <<currentMode, effectiveMode, prefetchMode, monitoring>>

\* chargingchange / levelchange
_updateBattery(b) ==
    /\ monitoring
    /\ contextData' = [contextData EXCEPT !.battery = b]
    /\ effectiveMode' = _recalculateMode(currentMode, contextData', effectiveMode)
    /\ UNCHANGED <<currentMode, prefetchMode, monitoring>>

\* navigator.connection changes to c and its change event is handled
_updateNetwork(c) ==
    /\ monitoring
    /\ conn.present
    /\ conn' = c
    /\ contextData' = [contextData EXCEPT !.network = NetworkOf(c)]
    /\ effectiveMode' = _recalculateMode(currentMode, contextData', effectiveMode)
    /\ UNCHANGED <<currentMode, prefetchMode, monitoring>>

\* the 30 s interval's _checkMemory
_checkMemory(m) ==
    /\ monitoring
    /\ contextData' = [contextData EXCEPT !.memory = [usedPercent |-> m]]
    /\ effectiveMode' = _recalculateMode(currentMode, contextData', effectiveMode)
    /\ UNCHANGED <<currentMode, prefetchMode, monitoring>>

getStatus ==
    [mode          |-> currentMode,
     effectiveMode |-> IF effectiveMode = Undefined THEN currentMode ELSE effectiveMode,
     context       |-> contextData,
     profile       |-> getProfile]

----------------------------------------------------------------------------
(* Trust list *)

DEFAULT_TRUSTED == {"github.com", "stackoverflow.com", "wikipedia.org",
                    "youtube.com", "reddit.com"}
KNOWN_TRACKERS  == {"doubleclick.net", "googlesyndication.com", "facebook.net",
                    "analytics.google.com"}
BLACKLISTED     == {"google.com", "www.google.com", "accounts.google.com",
                    "myaccount.google.com", "recaptcha.net", "bankofamerica.com",
                    "chase.com", "paypal.com"}

\* _extractDomain(url): the hostname, or the string itself when it does not
\* parse; the hosts of the model are written without a www. prefix
_extractDomain(u) == IF Parses(u) THEN u.host ELSE u.path

\* getTrustLevel(url) with the explicit settings `levels` (domain -> level)
getTrustLevel(levels, u) ==
    LET domain == _extractDomain(u) IN
    IF domain \in DOMAIN levels THEN levels[domain]
    ELSE IF domain \in KNOWN_TRACKERS THEN "untrusted"
    ELSE IF domain \in BLACKLISTED THEN "untrusted"
    ELSE IF domain \in DEFAULT_TRUSTED THEN "trusted"
    ELSE "neutral"

canPrefetch(levels, u) == getTrustLevel(levels, u) \in {"trusted", "neutral"}

canPrerender(levels, u) == getTrustLevel(levels, u) = "trusted"

\* TrustList.trustLevels when nothing is set: the constructor, and load()
\* when nothing is stored or the read fails
NoLevels == [d \in {} |-> "neutral"]

\* new TrustList(): load() is started and awaits the storage
InitTrustList(stored) ==
    /\ trustLevels = NoLevels
    /\ storedTrustLevels = stored
    /\ trustLoadPending = TRUE

InitTrust == InitTrustList(NoLevels)

\* load() after its await: the stored levels (none stored: {}), {} on failure
load(ok) ==
    /\ trustLoadPending
    /\ trustLoadPending' = FALSE
    /\ trustLevels' = IF ok THEN storedTrustLevels ELSE NoLevels
    /\ UNCHANGED storedTrustLevels

\* save(): the write is taken as done when it is issued
save == storedTrustLevels' = trustLevels'

\* setTrustLevel(url, level)
setTrustLevel(u, level) ==
    /\ trustLevels' = MapSet(trustLevels, _extractDomain(u), level)
    /\ save
    /\ UNCHANGED trustLoadPending

\* promoteIfFrequent(domain, visitCount); the domain is passed where a URL
\* is expected
promoteIfFrequent(domain, visitCount) ==
    /\ IF visitCount >= 10 /\ getTrustLevel(trustLevels, Unparsable(domain)) = "neutral"
       THEN trustLevels' = MapSet(trustLevels, domain, "trusted") /\ save
       ELSE UNCHANGED <<trustLevels, storedTrustLevels>>
    /\ UNCHANGED trustLoadPending

\* reset()
reset ==
    /\ trustLevels' = NoLevels
    /\ save
    /\ UNCHANGED trustLoadPending

----------------------------------------------------------------------------
(* Prefetcher *)

maxRules == 10
maxAgeMs == 60000

NoState == [present |-> FALSE, urls |-> EmptyMap, rules |-> <<>>]

\* The operators below transform S, the part of the state one handler run
\* reads and writes: [urls, rules, saved, stats].

\* _saveState: the snapshot is taken when it is called
_saveState(S) ==
    [S EXCEPT !.saved = [present |-> TRUE, urls |-> S.urls, rules |-> S.rules]]

_track(S, u, type) ==
    _saveState([S EXCEPT !.urls = MapSet(@, _normalize(u), [type |-> type, timestamp |-> now])])

wasPrefetched(u) == _normalize(u) \in DOMAIN prefetchedUrls

getPrefetchType(u) ==
    IF _normalize(u) \in DOMAIN prefetchedUrls
    THEN prefetchedUrls[_normalize(u)].type
    ELSE Undefined

\* clearOldPrefetches(maxAgeMs): no code of the repository calls it
clearOldPrefetches(S) ==
    LET old == {k \in DOMAIN S.urls : now - S.urls[k].timestamp > maxAgeMs}
        S1  == [S EXCEPT !.urls = [k \in (DOMAIN @) \ old |-> @[k]]]
    IN  IF old # {} THEN _saveState(S1) ELSE S1

\* navigator.connection && navigator.connection.saveData
NoConn == [effectiveType |-> "", downlink |-> 0, saveData |-> FALSE, present |-> FALSE]
saveDataOn == conn.present /\ conn.saveData

\* dnsPrefetch(url) / preconnect(url): the hint is injected, the URL tracked;
\* new URL(url) throws for a string that does not parse, the error is caught
\* and nothing is tracked
Hint(S, u, rel) == IF Parses(u) THEN _track(S, u, rel) ELSE S

\* (mutant: the data-saver test left out)
ReturnsAtOnce_NoVeto(S, u) == u \in DOMAIN S.urls

\* prefetch(url) / prerender(url) return at once: the URL string is a key of
\* prefetchedUrls, or data saver is on
ReturnsAtOnce(S, u) == u \in DOMAIN S.urls \/ saveDataOn

\* _addSpeculationRule up to its first host call: at capacity the oldest rule
\* is shifted out and its removal from the page awaited
NeedsRemoval(S) == Len(S.rules) >= maxRules

\* (mutant: pop() instead of shift())
ShiftOldest_Newest(S) == [S EXCEPT !.rules = SubSeq(@, 1, Len(@) - 1)]

ShiftOldest(S) == [S EXCEPT !.rules = Tail(@)]

\* _removeOldestRule after its host call (which may have failed: caught)
ForgetOldest(urls, oldest) == MapDelete(urls, oldest.url)

\* _addSpeculationRule after the injection succeeded, then _track
PushRule(S, type, u) ==
    _saveState([S EXCEPT !.rules = Append(@, [type |-> type, url |-> u, timestamp |-> now])])

----------------------------------------------------------------------------
(* Service worker: _handlePredictions *)

\* (mutant: the quota tests left out)
Tier_NoQuota(score, profile) ==
    IF score >= profile.prerenderThreshold THEN "prerender"
    ELSE IF score >= profile.prefetchThreshold THEN "prefetch"
    ELSE IF score >= profile.preconnectThreshold THEN "preconnect"
    ELSE IF score >= 30 THEN "dns-prefetch"
    ELSE "none"

\* the branch of the if-chain a candidate's score selects under a profile
Tier(score, profile) ==
    IF score >= profile.prerenderThreshold /\ profile.maxPrerender > 0 THEN "prerender"
    ELSE IF score >= profile.prefetchThreshold /\ profile.maxPrefetch > 0 THEN "prefetch"
    ELSE IF score >= profile.preconnectThreshold THEN "preconnect"
    ELSE IF score >= 30 THEN "dns-prefetch"
    ELSE "none"

\* the frame of a suspended _handlePredictions: the candidate `link` whose
\* prerender (type "prerender") or prefetch call is awaited, the rest of the
\* batch, the profile read at the start; pc and oldest are the position and
\* the local of the Prefetcher call
Suspended(pc, type, link, oldest, links, profile, statsUpdated) ==
    [pc |-> pc, type |-> type, link |-> link, oldest |-> oldest, links |-> links,
     profile |-> profile, statsUpdated |-> statsUpdated]

NoRule == [type |-> "", url |-> Url("", "", FALSE, "", FALSE), timestamp |-> 0]

\* The for-loop from its current candidate to the next suspension at a host
\* call, or to its end.  Result: the state and the suspended handler, if any.
RECURSIVE HandleLinks(_, _, _, _)
HandleLinks(S, links, profile, statsUpdated) ==
    IF links = <<>>
    THEN [S |-> S, h |-> <<>>]
    ELSE
      LET link == Head(links)
          tier == Tier(link.score, profile)
      IN  IF tier \in {"prerender", "prefetch"}
          THEN IF ReturnsAtOnce(S, link.url)
               THEN HandleLinks([S EXCEPT !.stats = @ + 1], Tail(links), profile, TRUE)
               ELSE IF NeedsRemoval(S)
                    THEN [S |-> ShiftOldest(S),
                          h |-> <<Suspended("remove", tier, link, Head(S.rules),
                                            Tail(links), profile, statsUpdated)>>]
                    ELSE [S |-> S,
                          h |-> <<Suspended("inject", tier, link, NoRule,
                                            Tail(links), profile, statsUpdated)>>]
          ELSE IF tier \in {"preconnect", "dns-prefetch"}
               THEN HandleLinks(Hint(S, link.url, tier), Tail(links), profile, statsUpdated)
               ELSE HandleLinks(S, Tail(links), profile, statsUpdated)

\* the state a handler run starts from
Here == [urls |-> prefetchedUrls, rules |-> activeSpeculationRules,
         saved |-> prefetchState, stats |-> stats]

\* ... and the state it leaves, with the handlers suspended afterwards
Leave(r, others) ==
    /\ prefetchedUrls' = r.S.urls
    /\ activeSpeculationRules' = r.S.rules
    /\ prefetchState' = r.S.saved
    /\ stats' = r.S.stats
    /\ handlers' = others \o r.h

Without(seq, i) == SubSeq(seq, 1, i - 1) \o SubSeq(seq, i + 1, Len(seq))

\* PREDICTION_UPDATE: _handlePredictions(links) starts
_handlePredictions(links) ==
    /\ received + Len(links) <= MaxCandidates
    /\ received' = received + Len(links)
    /\ Leave(HandleLinks(Here, links, getProfile, FALSE), handlers)
    /\ UNCHANGED loadPending

\* the host call of _removeOldestRule settles for handler i (resolved or
\* rejected, the rejection is caught); _addSpeculationRule goes on to inject
RemoveSettled(i) ==
    /\ i \in DOMAIN handlers
    /\ handlers[i].pc = "remove"
    /\ prefetchedUrls' = ForgetOldest(prefetchedUrls, handlers[i].oldest)
    /\ handlers' = [handlers EXCEPT ![i].pc = "inject"]
    /\ UNCHANGED <<activeSpeculationRules, prefetchState, stats, received, loadPending>>

\* (mutant: the loop goes on under the profile in force when it resumes)
InjectResolved_CurrentProfile(i) ==
    /\ i \in DOMAIN handlers
    /\ handlers[i].pc = "inject"
    /\ LET h  == handlers[i]
           S1 == _track(PushRule(Here, h.type, h.link.url), h.link.url, h.type)
           S2 == [S1 EXCEPT !.stats = @ + 1]
       IN  Leave(HandleLinks(S2, h.links, getProfile, TRUE), Without(handlers, i))
    /\ UNCHANGED <<received, loadPending>>

\* the injection of handler i resolves: the rule is recorded, the URL tracked,
\* the counter incremented and the loop goes on
InjectResolved(i) ==
    /\ i \in DOMAIN handlers
    /\ handlers[i].pc = "inject"
    /\ LET h  == handlers[i]
           S1 == _track(PushRule(Here, h.type, h.link.url), h.link.url, h.type)
           S2 == [S1 EXCEPT !.stats = @ + 1]
       IN  Leave(HandleLinks(S2, h.links, h.profile, TRUE), Without(handlers, i))
    /\ UNCHANGED <<received, loadPending>>

\* the injection of handler i rejects: prefetch()/prerender() catch it
InjectRejected(i) ==
    /\ i \in DOMAIN handlers
    /\ handlers[i].pc = "inject"
    /\ LET h  == handlers[i]
           S2 == [Here EXCEPT !.stats = @ + 1]
       IN  Leave(HandleLinks(S2, h.links, h.profile, TRUE), Without(handlers, i))
    /\ UNCHANGED <<received, loadPending>>

\* what an earlier run of the service worker stored: n rules with their keys
\* (a run that finds nothing stored is the run whose load fails)
FillerPaths == <<"f1", "f2", "f3", "f4", "f5", "f6", "f7", "f8", "f9", "f10">>
FillerUrl(i) == Url("example.com", FillerPaths[i], FALSE, "", FALSE)

Stored(n) ==
    [present |-> TRUE,
     urls    |-> [k \in {FillerUrl(i) : i \in 1..n} |-> [type |-> "prefetch", timestamp |-> 0]],
     rules   |-> [i \in 1..n |-> [type |-> "prefetch", url |-> FillerUrl(i), timestamp |-> 0]]]

\* what `chrome.storage.local.get('prefetchState')` resolves with: the
\* constructor issues the read, which is served before any write a later
\* message handler issues, whenever its promise settles
Persisted == Stored(maxRules - 1)

\* (mutant: the directive list is not rehydrated)
_loadState_IndexOnly(ok) ==
    /\ loadPending
    /\ loadPending' = FALSE
    /\ IF ok /\ Persisted.present
       THEN /\ prefetchedUrls' = Persisted.urls
            /\ UNCHANGED activeSpeculationRules
       ELSE UNCHANGED <<prefetchedUrls, activeSpeculationRules>>
    /\ UNCHANGED <<prefetchState, handlers, received, stats>>

\* _loadState settles: the state read replaces the in-memory one; a
\* rejected read (~ok) leaves it
_loadState(ok) ==
    /\ loadPending
    /\ loadPending' = FALSE
    /\ IF ok /\ Persisted.present
       THEN /\ prefetchedUrls' = Persisted.urls
            /\ activeSpeculationRules' = Persisted.rules
       ELSE UNCHANGED <<prefetchedUrls, activeSpeculationRules>>
    /\ UNCHANGED <<prefetchState, handlers, received, stats>>

----------------------------------------------------------------------------
(* CursorTracker (content script).  Times are performance.now() in ms,     *)
(* positions px, velocities px/s, accelerations px/s^2.  The inputs are    *)
(* chosen so that every quotient and square root below is exact.           *)

CAPTURE_INTERVAL == 16

Abs(n) == IF n < 0 THEN -n ELSE n

RECURSIVE Gcd(_, _)
Gcd(a, b) == IF b = 0 THEN a ELSE Gcd(b, a % b)

\* Math.sqrt, by bisection
RECURSIVE SqrtIn(_, _, _)
SqrtIn(n, lo, hi) ==
    IF lo = hi THEN lo
    ELSE LET mid == (lo + hi + 1) \div 2
         IN  IF mid * mid <= n THEN SqrtIn(n, mid, hi) ELSE SqrtIn(n, lo, mid - 1)

Sqrt(n) == SqrtIn(n, 0, 46340)

\* Math.atan2(y, x): the angle, given as the ray it names (the vector
\* divided by the gcd of its components); atan2(0, 0) is the angle 0
Atan2(y, x) ==
    IF x = 0 /\ y = 0 THEN [y |-> 0, x |-> 1]
    ELSE [y |-> y \div Gcd(Abs(y), Abs(x)), x |-> x \div Gcd(Abs(y), Abs(x))]

\* Math.sqrt(vx ** 2 + vy ** 2)
Speed(v) == Sqrt(v.vx * v.vx + v.vy * v.vy)

\* _isDecelerating(): currentSpeed < prevSpeed * 0.8, on this.velocity and
\* this.lastVelocity as they are when getData() runs
_isDecelerating(vel, lastVel) ==
    5 * Speed(vel) < 4 * Speed(lastVel)

\* getData(), on the tracker's fields
getData(pos, vel, acc, dir, lastVel, t) ==
    [position       |-> pos,
     velocity       |-> vel,
     acceleration   |-> acc,
     direction      |-> dir,
     speed          |-> Speed(vel),
     isDecelerating |-> _isDecelerating(vel, lastVel),
     timestamp      |-> t]

\* the constructor
InitTracker ==
    /\ position = [x |-> 0, y |-> 0]
    /\ velocity = [vx |-> 0, vy |-> 0]
    /\ acceleration = [ax |-> 0, ay |-> 0]
    /\ direction = Atan2(0, 1)
    /\ lastPosition = [x |-> 0, y |-> 0]
    /\ lastVelocity = [vx |-> 0, vy |-> 0]
    /\ lastTimestamp = perfNow
    /\ delivered = <<>>

\* (mutant: the vectors are not normalized by the speed)
getIntentionScore_Raw(targetX, targetY) ==
    LET dx == targetX - position.x
        dy == targetY - position.y
        distance == Sqrt(dx * dx + dy * dy)
    IN  IF distance = 0 THEN 100
        ELSE IF Speed(velocity) = 0 THEN 0
        ELSE (dx * velocity.vx + dy * velocity.vy) \div (10 * distance)

\* getIntentionScore(targetX, targetY) on a tracker at pos with velocity
\* vel, in hundredths (1 is 100)
getIntentionScoreOf(pos, vel, targetX, targetY) ==
    LET dx == targetX - pos.x
        dy == targetY - pos.y
        distance == Sqrt(dx * dx + dy * dy)
        speed == Speed(vel)
    IN  IF distance = 0 THEN 100
        ELSE IF speed = 0 THEN 0
        ELSE ((dx * vel.vx + dy * vel.vy) * 100) \div (distance * speed)

getIntentionScore(targetX, targetY) ==
    getIntentionScoreOf(position, velocity, targetX, targetY)

----------------------------------------------------------------------------
(* LinkPredictor (content script).  Scores are in hundredths of a point    *)
(* (30 is 3000, 100 is 10000); the five component scores are in points.    *)
(* The inputs are chosen so that every quotient, root and logarithm below  *)
(* is exact.                                                               *)
(* The class modelled is the one of predictor.js; tracker.js carries an    *)
(* earlier copy of it after the tracker (lines 125-385).                   *)

GRACE_PERIOD_MS   == 200
BATCH_INTERVAL_MS == 80

\* window.innerWidth, window.innerHeight
innerWidth  == 960
innerHeight == 1280

Min(a, b) == IF a < b THEN a ELSE b
Max(a, b) == IF a > b THEN a ELSE b

\* Math.log2
RECURSIVE Log2(_)
Log2(n) == IF n <= 1 THEN 0 ELSE 1 + Log2(n \div 2)

\* (mutant: no clamp)
_calculateFittsScore_NoClamp(distance, width, height) ==
    LET minDimension == Min(width, height) IN
    IF minDimension <= 0 THEN 0
    ELSE 100 - Log2(distance \div minDimension + 1) * 15

_calculateFittsScore(distance, width, height) ==
    LET minDimension == Min(width, height) IN
    IF minDimension <= 0 THEN 0
    ELSE LET id == Log2(distance \div minDimension + 1)
             k  == 15
         IN  Max(0, Min(100, 100 - id * k))

\* the entry _scanLinks makes for an anchor; region is what closest() finds
\* around the element: "main", "nav" or "none"
LinkData(anchor) ==
    [element |-> anchor.id, url |-> anchor.href, region |-> anchor.region,
     rect |-> anchor.rect, isVisible |-> FALSE, score |-> 0]

_getContextScore(data) ==
    IF data.region = "main" THEN 80
    ELSE IF data.region = "nav" THEN 30
    ELSE 50 + ((innerHeight - data.rect.top) * 30) \div innerHeight

_getHistoryScore(cache, url) ==
    IF url \in DOMAIN cache THEN cache[url] ELSE 40

\* _fetchHistoryScore(url), on P = [cache, lookups]
_fetchHistoryScore(P, url) ==
    IF url \in DOMAIN P.cache THEN P
    ELSE [cache |-> MapSet(P.cache, url, 40), lookups |-> P.lookups \cup {url}]

\* (mutant: the cursor speed is not looked at)
_getGraceBoost_AnySpeed(S, url, currentScore, speed, t) ==
    IF /\ currentScore > 5000
       /\ url \notin DOMAIN S.graceTimers
       /\ url \in DOMAIN S.scores
       /\ S.scores[url].score > currentScore
    THEN [S     |-> [S EXCEPT !.graceTimers = MapSet(@, url, t + GRACE_PERIOD_MS)],
          boost |-> S.scores[url].score - currentScore]
    ELSE [S |-> S, boost |-> 0]

\* (mutant: an active grace timer is not looked at)
_getGraceBoost_NoTimerTest(S, url, currentScore, speed, t) ==
    IF /\ speed < 50 /\ currentScore > 5000
       /\ url \in DOMAIN S.scores
       /\ S.scores[url].score > currentScore
    THEN [S     |-> [S EXCEPT !.graceTimers = MapSet(@, url, t + GRACE_PERIOD_MS)],
          boost |-> S.scores[url].score - currentScore]
    ELSE [S |-> S, boost |-> 0]

\* _getGraceBoost(url, currentScore, cursorData) at time t, on
\* S = [scores, graceTimers, ...]: the state after it and the boost
_getGraceBoost(S, url, currentScore, speed, t) ==
    IF /\ speed < 50 /\ currentScore > 5000
       /\ url \notin DOMAIN S.graceTimers
       /\ url \in DOMAIN S.scores
       /\ S.scores[url].score > currentScore
    THEN [S     |-> [S EXCEPT !.graceTimers = MapSet(@, url, t + GRACE_PERIOD_MS)],
          boost |-> S.scores[url].score - currentScore]
    ELSE [S |-> S, boost |-> 0]

\* the centre of a link's rect
Center(d) == [x |-> d.rect.left + d.rect.width \div 2,
              y |-> d.rect.top + d.rect.height \div 2]

DistanceSq(d, data) ==
    LET dx == Center(d).x - data.position.x
        dy == Center(d).y - data.position.y
    IN  dx * dx + dy * dy

\* totalScore of calculateScores for link d, in hundredths; the tracker
\* holds the position and velocity it has just delivered in `data`
TotalScore(d, data, cache) ==
    LET distance       == Sqrt(DistanceSq(d, data))
        fittsScore     == _calculateFittsScore(distance, d.rect.width, d.rect.height)
        intentionRaw   == getIntentionScoreOf(data.position, data.velocity,
                                              Center(d).x, Center(d).y)
        intentionScore == Max(0, intentionRaw)
        maxDistance    == Sqrt(innerWidth * innerWidth + innerHeight * innerHeight)
        proximityScore == Max(0, 100 - (distance * 100) \div maxDistance)
        contextScore   == _getContextScore(d)
        historyScore   == _getHistoryScore(cache, d.url)
    IN  fittsScore * 30 + intentionScore * 30 + proximityScore * 15
          + contextScore * 10 + historyScore * 15

\* (mutant: the final score is not capped at 100)
Final_NoCap(totalScore, graceBoost) == totalScore + graceBoost

\* finalScore of calculateScores
Final(totalScore, graceBoost) == Min(10000, totalScore + graceBoost)

\* `finalScore > 30`
Meaningful(finalScore) == finalScore > 3000

\* the for-loop of calculateScores from entry k on, for cursorData `data` at
\* time t, on S = [linkMap, scores, graceTimers, results]; cache is
\* historyCache.  (The breakdown stored with a score is left out.)
RECURSIVE ScoreLinks(_, _, _, _, _)
ScoreLinks(S, k, data, t, cache) ==
    IF k > Len(S.linkMap) THEN S
    ELSE
      LET d == S.linkMap[k] IN
      IF ~d.isVisible \/ DistanceSq(d, data) > 250000
      THEN ScoreLinks(S, k + 1, data, t, cache)
      ELSE
        LET totalScore == TotalScore(d, data, cache)
            g          == _getGraceBoost(S, d.url, totalScore, data.speed, t)
            finalScore == Final(totalScore, g.boost)
            S1         == [g.S EXCEPT !.linkMap[k].score = finalScore]
            S2         == IF Meaningful(finalScore)
                          THEN [S1 EXCEPT
                                  !.scores = MapSet(@, d.url,
                                               [score |-> finalScore, timestamp |-> t]),
                                  !.results = Append(@,
                                               [url |-> d.url, element |-> d.element,
                                                score |-> finalScore])]
                          ELSE S1
        IN  ScoreLinks(S2, k + 1, data, t, cache)

RECURSIVE InsertDesc_Unstable(_, _)
\* (mutant: a candidate is put in front of those of equal score)
InsertDesc_Unstable(sorted, r) ==
    IF sorted = <<>> THEN <<r>>
    ELSE IF Head(sorted).score > r.score
         THEN <<Head(sorted)>> \o InsertDesc_Unstable(Tail(sorted), r)
         ELSE <<r>> \o sorted

\* results.sort((a, b) => b.score - a.score): stable, by insertion
RECURSIVE InsertDesc(_, _)
InsertDesc(sorted, r) ==
    IF sorted = <<>> THEN <<r>>
    ELSE IF Head(sorted).score >= r.score
         THEN <<Head(sorted)>> \o InsertDesc(Tail(sorted), r)
         ELSE <<r>> \o sorted

RECURSIVE SortDesc(_)
SortDesc(results) ==
    IF results = <<>> THEN <<>>
    ELSE InsertDesc(SortDesc(SubSeq(results, 1, Len(results) - 1)),
                    results[Len(results)])

\* results.slice(0, 5)
Slice5(results) == SubSeq(results, 1, Min(5, Len(results)))

\* _notifyPrefetcher(topLinks): the message sent
_notifyPrefetcher(topLinks) ==
    [type  |-> "PREDICTION_UPDATE",
     links |-> [i \in DOMAIN topLinks |->
                   [url |-> topLinks[i].url, score |-> topLinks[i].score]]]

\* (mutant: the largest multiplier alone, no compounding)
currentInterval_Largest ==
    IF conn.present /\ conn.saveData THEN 160
    ELSE IF conn.present /\ conn.effectiveType \in {"slow-2g", "2g", "3g"} THEN 120
    ELSE IF isCharging # "true" THEN 100
    ELSE 80

\* the throttle interval of calculateScores
currentInterval ==
    (BATCH_INTERVAL_MS
       * (IF conn.present /\ conn.saveData THEN 2 ELSE 1)
       * (IF conn.present /\ conn.effectiveType \in {"slow-2g", "2g", "3g"} THEN 3 ELSE 2)
       * (IF isCharging # "true" THEN 5 ELSE 4)) \div 8

\* window.instantNavTracker.scrollSpeed > 100: the tracker has no scrollSpeed
\* field and no scroll listener, the comparison is undefined > 100 however
\* fast the page is scrolled
ScrollingFast == FALSE

\* calculateScores(cursorData) when performance.now() gives t
calculateScores(data, t) ==
    IF t - lastBatchTime < currentInterval
    THEN UNCHANGED prdVars
    ELSE
      /\ lastBatchTime' = t
      /\ IF ScrollingFast
         THEN UNCHANGED <<linkMap, scores, graceTimers, sent>>
         ELSE LET S == ScoreLinks([linkMap |-> linkMap, scores |-> scores,
                                   graceTimers |-> graceTimers, results |-> <<>>],
                                  1, data, t, historyCache)
                  results == SortDesc(S.results)
              IN  /\ linkMap' = S.linkMap
                  /\ scores' = S.scores
                  /\ graceTimers' = S.graceTimers
                  /\ sent' = IF Len(results) > 0
                             THEN Append(sent, _notifyPrefetcher(Slice5(results)))
                             ELSE sent
      /\ UNCHANGED <<historyCache, lookups, isCharging, subscribed>>

\* getScore(url): `?.score || 0`
getScore(url) ==
    IF url \in DOMAIN scores /\ scores[url].score # 0 THEN scores[url].score ELSE 0

\* (mutant: no throttle)
Throttled_Never(elapsed) == FALSE

\* dt < CAPTURE_INTERVAL / 1000, dt being the elapsed ms / 1000
Throttled(elapsed) == elapsed < CAPTURE_INTERVAL

\* _onMouseMove(event) when performance.now() gives t; the subscriber is the predictor's
\* calculateScores
_onMouseMove(event, t) ==
    LET elapsed == t - lastTimestamp IN
    IF Throttled(elapsed)
    THEN UNCHANGED <<trkVars, prdVars>>
    ELSE LET pos == [x |-> event.clientX, y |-> event.clientY]
             vel == [vx |-> ((pos.x - lastPosition.x) * 1000) \div elapsed,
                     vy |-> ((pos.y - lastPosition.y) * 1000) \div elapsed]
             acc == [ax |-> ((vel.vx - lastVelocity.vx) * 1000) \div elapsed,
                     ay |-> ((vel.vy - lastVelocity.vy) * 1000) \div elapsed]
             dir == Atan2(vel.vy, vel.vx)
         IN  /\ position' = pos
             /\ velocity' = vel
             /\ acceleration' = acc
             /\ direction' = dir
             /\ lastPosition' = pos
             /\ lastVelocity' = vel
             /\ lastTimestamp' = t
             /\ delivered' = Append(delivered,
                                    getData(pos, vel, acc, dir, vel, t))
             /\ IF subscribed
                THEN calculateScores(getData(pos, vel, acc, dir, vel, t), t)
                ELSE UNCHANGED prdVars

\* href.startsWith('#' | 'javascript:' | 'mailto:') or no href value; the
\* attribute is held as [prefix, rest]
SkippedHref(attr) ==
    \/ attr.prefix = "" /\ attr.rest = ""
    \/ attr.prefix \in {"#", "javascript:", "mailto:"}

Elements(anchors) == {anchors[i].id : i \in DOMAIN anchors}

RECURSIVE SelectSeq2(_, _)
SelectSeq2(q, keep) ==
    IF q = <<>> THEN <<>>
    ELSE IF Head(q).element \in keep
         THEN <<Head(q)>> \o SelectSeq2(Tail(q), keep)
         ELSE SelectSeq2(Tail(q), keep)

\* the "Add new links" loop of _scanLinks from anchor k on, on
\* P = [linkMap, cache, lookups, threw]; without an IntersectionObserver
\* `this.intersectionObserver.observe` throws after links.set
RECURSIVE AddLinks(_, _, _, _)
AddLinks(P, anchors, k, observer) ==
    IF k > Len(anchors) THEN P
    ELSE LET anchor == anchors[k] IN
         IF \/ anchor.id \in {P.linkMap[i].element : i \in DOMAIN P.linkMap}
            \/ SkippedHref(anchor.attr)
         THEN AddLinks(P, anchors, k + 1, observer)
         ELSE LET P1 == [P EXCEPT !.linkMap = Append(@, LinkData(anchor))] IN
              IF ~observer THEN [P1 EXCEPT !.threw = TRUE]
              ELSE LET F == _fetchHistoryScore([cache |-> P1.cache, lookups |-> P1.lookups],
                                               anchor.href)
                   IN  AddLinks([P1 EXCEPT !.cache = F.cache, !.lookups = F.lookups],
                                anchors, k + 1, observer)

\* _scanLinks() when document.querySelectorAll('a[href]') gives `anchors`;
\* the "Remove old links" loop throws at unobserve without an observer
_scanLinks(P, anchors, observer) ==
    LET gone == {P.linkMap[i].element : i \in DOMAIN P.linkMap} \ Elements(anchors) IN
    IF gone # {} /\ ~observer THEN [P EXCEPT !.threw = TRUE]
    ELSE AddLinks([P EXCEPT !.linkMap = SelectSeq2(@, Elements(anchors))],
                  anchors, 1, observer)

\* new LinkPredictor() on a page whose anchors are `anchors`, and the
\* subscription that follows it.  _setupObserver makes the initial scan
\* before _setupIntersectionObserver has created the observer: with a
\* qualifying anchor on the page the constructor throws, and neither
\* _initBatteryStatus nor the subscription is reached.
InitPredictor(anchors) ==
    LET P == _scanLinks([linkMap |-> <<>>, cache |-> EmptyMap, lookups |-> {},
                         threw |-> FALSE], anchors, FALSE)
    IN  /\ linkMap = P.linkMap
        /\ historyCache = P.cache
        /\ lookups = P.lookups
        /\ scores = EmptyMap
        /\ graceTimers = EmptyMap
        /\ lastBatchTime = 0
        /\ isCharging = Undefined
        /\ sent = <<>>
        /\ subscribed = ~P.threw

\* navigator.getBattery() has not resolved: the device is plugged in, no
\* listener is attached
Battery(charging, listening) == [charging |-> charging, listening |-> listening]

InitBattery == battery = Battery(TRUE, FALSE)

\* the page is not being scrolled
InitScroll == scrollSpeed = 0

BoolName(b) == IF b THEN "true" ELSE "false"

\* _initBatteryStatus after its await: the status is read and the listener
\* attached, or getBattery() rejected.  The constructor reaches the call only
\* if the initial scan did not throw.
OnBatteryStatus(ok) ==
    /\ subscribed
    /\ isCharging = Undefined
    /\ IF ok
       THEN /\ isCharging' = BoolName(battery.charging)
            /\ battery' = [battery EXCEPT !.listening = TRUE]
       ELSE /\ isCharging' = "true"
            /\ UNCHANGED battery
    /\ UNCHANGED <<linkMap, scores, graceTimers, historyCache, lookups, lastBatchTime,
                   sent, subscribed>>

\* the device is plugged in or unplugged; the chargingchange listener, if
\* attached, copies the status
OnChargingChange ==
    /\ battery' = [battery EXCEPT !.charging = ~@]
    /\ isCharging' = IF battery.listening THEN BoolName(~battery.charging) ELSE isCharging
    /\ UNCHANGED <<linkMap, scores, graceTimers, historyCache, lookups, lastBatchTime,
                   sent, subscribed>>

\* the content scripts on a page without anchors
InitContent ==
    /\ InitBattery
    /\ InitScroll
    /\ perfNow = 0
    /\ InitTracker
    /\ document = <<>>
    /\ InitPredictor(<<>>)

\* the MutationObserver callback when nodes were added or removed and the
\* document's anchors are now `anchors`
OnMutation(anchors) ==
    LET P == _scanLinks([linkMap |-> linkMap, cache |-> historyCache,
                         lookups |-> lookups, threw |-> FALSE], anchors, subscribed)
    IN  /\ linkMap' = P.linkMap
        /\ historyCache' = P.cache
        /\ lookups' = P.lookups
        /\ UNCHANGED <<scores, graceTimers, lastBatchTime, isCharging, sent, subscribed>>

\* the IntersectionObserver callback for `entries`, a sequence of
\* [target, isIntersecting, boundingClientRect]
RECURSIVE OnIntersect(_, _)
OnIntersect(links, entries) ==
    IF entries = <<>> THEN links
    ELSE LET entry == Head(entries)
             upd(d) == IF d.element # entry.target THEN d
                       ELSE [d EXCEPT !.isVisible = entry.isIntersecting,
                                      !.rect = IF entry.isIntersecting
                                               THEN entry.boundingClientRect ELSE @]
         IN  OnIntersect([i \in DOMAIN links |-> upd(links[i])], Tail(entries))

\* the callback of the GET_HISTORY_SCORE request for url:
\* `response && response.score`
OnHistoryResponse(url, response) ==
    /\ url \in lookups
    /\ lookups' = lookups \ {url}
    /\ historyCache' = IF response.present /\ response.score # 0
                       THEN MapSet(historyCache, url, response.score)
                       ELSE historyCache
    /\ UNCHANGED <<linkMap, scores, graceTimers, lastBatchTime, isCharging, sent, subscribed>>

\* the setTimeout callback of _getGraceBoost, GRACE_PERIOD_MS after it was
\* set or later
OnGraceTimeout(url) ==
    /\ url \in DOMAIN graceTimers
    /\ perfNow' = Max(perfNow, graceTimers[url])
    /\ graceTimers' = [u \in DOMAIN graceTimers \ {url} |-> graceTimers[u]]
    /\ UNCHANGED <<linkMap, scores, historyCache, lookups, lastBatchTime, isCharging,
                   sent, subscribed>>

----------------------------------------------------------------------------
(* Inputs *)

\* candidate URLs: one of a neutral domain, written with a trailing slash, and
\* one of a blacklisted domain
UrlSlash    == Url("example.com", "x", TRUE, "", FALSE)
UrlBlocked  == Url("paypal.com", "x", FALSE, "", FALSE)
Urls        == {UrlSlash, UrlBlocked}

\* one score in each band the three profiles distinguish
Scores == {25, 45, 75, 100}

Links == [url : Urls, score : Scores]

RECURSIVE SeqsUpTo(_, _)
SeqsUpTo(S, n) ==
    IF n = 0 THEN {<<>>}
    ELSE LET shorter == SeqsUpTo(S, n - 1)
         IN  shorter \cup {Append(q, x) : q \in {t \in shorter : Len(t) = n - 1}, x \in S}

Batches == SeqsUpTo(Links, MaxCandidates) \ {<<>>}

Connection(type, downlink, saveData) ==
    [effectiveType |-> type, downlink |-> downlink, saveData |-> saveData, present |-> TRUE]

\* the clock advances by just over the expiry age
TickMs == maxAgeMs + 1

----------------------------------------------------------------------------------------------------------------------------------------------
(* The service worker: messages, host completions, the clock *)

InitPrefetcher ==
    /\ prefetchedUrls = EmptyMap
    /\ activeSpeculationRules = <<>>
    /\ prefetchState = Persisted
    /\ loadPending = TRUE
    /\ handlers = <<>>
    /\ received = 0
    /\ stats = 0
    /\ now = 0

\* The service worker has no navigator.getBattery and no performance.memory:
\* _startMonitoring runs to its end inside the constructor.
InitContext ==
    /\ currentMode = "auto"
    /\ contextData = [InitContextData EXCEPT !.network = NetworkOf(conn)]
    /\ effectiveMode = DerivedMode(contextData)
    /\ prefetchMode = Undefined
    /\ monitoring = TRUE

Init ==
    /\ conn = Connection("4g", 100, FALSE)
    /\ InitTrust
    /\ InitPrefetcher
    /\ InitContext
    /\ InitContent

Tick ==
    /\ now + TickMs <= MaxTicks * TickMs
    /\ now' = now + TickMs
    /\ UNCHANGED <<hostVars, trustVars, pfVars, govVars, conn, cntVars>>

PredictionUpdate ==
    /\ \E links \in Batches : _handlePredictions(links)
    /\ UNCHANGED <<hostVars, trustVars, govVars, now, conn, cntVars>>

RemoveSettles ==
    /\ \E i \in DOMAIN handlers : RemoveSettled(i)
    /\ UNCHANGED <<hostVars, trustVars, govVars, now, conn, cntVars>>

InjectResolves ==
    /\ \E i \in DOMAIN handlers : InjectResolved(i)
    /\ UNCHANGED <<hostVars, trustVars, govVars, now, conn, cntVars>>

InjectRejects ==
    /\ \E i \in DOMAIN handlers : InjectRejected(i)
    /\ UNCHANGED <<hostVars, trustVars, govVars, now, conn, cntVars>>

LoadSettles ==
    /\ \E ok \in BOOLEAN : _loadState(ok)
    /\ UNCHANGED <<hostVars, trustVars, govVars, now, conn, cntVars>>

SetMode ==
    /\ \E mode \in Modes \cup {"max"} : setMode(mode)
    /\ UNCHANGED <<hostVars, trustVars, pfVars, now, conn, cntVars>>

\* data saver is switched on or off
SaveDataChange ==
    /\ _updateNetwork([conn EXCEPT !.saveData = ~@])
    /\ UNCHANGED <<hostVars, trustVars, pfVars, now, cntVars>>

\* The service worker with its ContextManager.  No code path reads a
\* timestamp, so the clock stands still here; SpecClock lets it run.
Next ==
    \/ PredictionUpdate
    \/ RemoveSettles
    \/ InjectResolves
    \/ InjectRejects
    \/ LoadSettles
    \/ SetMode
    \/ SaveDataChange

Spec == Init /\ [][Next]_vars

\* The Prefetcher under a running clock, the profile staying as constructed.
NextClock ==
    \/ PredictionUpdate
    \/ RemoveSettles
    \/ InjectResolves
    \/ InjectRejects
    \/ LoadSettles
    \/ Tick

SpecClock == Init /\ [][NextClock]_vars

----------------------------------------------------------------------------
(* The ContextManager alone, under every telemetry *)

Batteries == [charging : BOOLEAN, level : {15, 20, 100}]

Connections ==
    {Connection(t, d, sd) : t \in {"4g", "3g", "2g", "slow-2g", ""},
                            d \in {0, 50, 51}, sd \in BOOLEAN}

MemorySamples == {49, 50, 80, 81}

InitGov ==
    /\ conn \in {NoConn, Connection("4g", 100, FALSE)}
    /\ InitTrust
    /\ InitPrefetcher
    /\ currentMode = "auto"
    /\ effectiveMode = Undefined
    /\ contextData = InitContextData
    /\ prefetchMode = Undefined
    /\ monitoring = FALSE
    /\ InitContent

StartMonitoring ==
    /\ \E b \in Batteries \cup {NoBattery}, m \in MemorySamples \cup {NoMemory} :
          _startMonitoring(b, m)
    /\ UNCHANGED <<hostVars, trustVars, pfVars, now, conn, cntVars>>

BatteryChange ==
    /\ \E b \in Batteries : _updateBattery(b)
    /\ UNCHANGED <<hostVars, trustVars, pfVars, now, conn, cntVars>>

NetworkChange ==
    /\ \E c \in Connections : _updateNetwork(c)
    /\ UNCHANGED <<hostVars, trustVars, pfVars, now, cntVars>>

MemoryCheck ==
    /\ \E m \in MemorySamples : _checkMemory(m)
    /\ UNCHANGED <<hostVars, trustVars, pfVars, now, conn, cntVars>>

NextGov ==
    \/ StartMonitoring
    \/ BatteryChange
    \/ NetworkChange
    \/ MemoryCheck
    \/ SetMode

SpecGov == InitGov /\ [][NextGov]_vars

----------------------------------------------------------------------------
(* The cursor tracker on a page without anchors, under pointer moves *)

Point(x, y) == [x |-> x, y |-> y]

\* the corners of a 3-4-5 triangle, and one more target on its base line
Points  == {Point(0, 0), Point(96, 0), Point(96, 128)}
Targets == Points \cup {Point(192, 0)}

\* ms between a mousemove event and the last accepted one
Elapsed == {15, 16, 100, 400}

MouseMoveIn(points, elapsed) ==
    /\ Len(delivered) < MaxSamples
    /\ \E e \in elapsed, pt \in points :
          /\ lastTimestamp + e >= perfNow
          /\ perfNow' = lastTimestamp + e
          /\ _onMouseMove([clientX |-> pt.x, clientY |-> pt.y], lastTimestamp + e)
    /\ UNCHANGED <<hostVars, trustVars, pfVars, govVars, now, conn>>

MouseMove == MouseMoveIn(Points, Elapsed)

NextTracker == MouseMove

SpecTracker == Init /\ [][NextTracker]_vars

----------------------------------------------------------------------------
(* The link predictor with the tracker: a page whose anchors lie on the    *)
(* line y = 0, the cursor moving along that line                           *)

Href(path) == [prefix |-> "/", rest |-> path]

\* a 32 x 16 anchor whose centre is (centerX, 0)
Anchor(id, path, region, centerX) ==
    [id     |-> id,
     href   |-> path,
     attr   |-> Href(path),
     region |-> region,
     rect   |-> [left |-> centerX - 16, top |-> -8, width |-> 32, height |-> 16]]

\* two links tie whenever their URLs have the same history score; "a" and
\* "f" are the URL of one link each; the last anchor is skipped by _scanLinks
PageLinks ==
    << Anchor(1, "e", "main", 112),
       Anchor(2, "a", "main", 112),
       Anchor(3, "e", "main", 48),
       Anchor(4, "e", "main", -16),
       Anchor(5, "e", "nav", 48),
       Anchor(6, "e", "nav", 112),
       Anchor(7, "f", "nav", 592),
       [Anchor(8, "top", "nav", 48) EXCEPT !.attr = [prefix |-> "#", rest |-> "top"]] >>

Pages == {<<>>, PageLinks}

LinePoints == {Point(0, 0), Point(96, 0)}

\* what a GET_HISTORY_SCORE request is answered with
HistoryResponses == [present : {TRUE}, score : {-1000, 0, 1000}]

\* the IntersectionObserver reports every observed anchor of the page, all
\* scrolled into view or all scrolled out of it
EntriesOf(anchors, isIntersecting) ==
    LET observed == SelectSeq(anchors, LAMBDA a : ~SkippedHref(a.attr))
    IN  [i \in DOMAIN observed |->
            [target |-> observed[i].id, isIntersecting |-> isIntersecting,
             boundingClientRect |-> observed[i].rect]]

Entries(isIntersecting) == EntriesOf(PageLinks, isIntersecting)

\* what a DOM mutation makes of the document
Documents == {PageLinks}

MutationIn(documents) ==
    /\ \E anchors \in documents :
          /\ Elements(anchors) # {linkMap[i].element : i \in DOMAIN linkMap}
          /\ document' = anchors
          /\ OnMutation(anchors)
    /\ UNCHANGED <<battery, scrollSpeed, trustVars, pfVars, govVars, now, conn, perfNow,
                   trkVars>>

Mutation == MutationIn(Documents)

IntersectIn(anchors) ==
    /\ subscribed
    /\ \E isIntersecting \in BOOLEAN :
          linkMap' = OnIntersect(linkMap, EntriesOf(anchors, isIntersecting))
    /\ UNCHANGED <<scores, graceTimers, historyCache, lookups, lastBatchTime, isCharging,
                   sent, subscribed>>
    /\ UNCHANGED <<hostVars, trustVars, pfVars, govVars, now, conn, perfNow, trkVars>>

\* the URLs whose lookup has been answered
Answered == DOMAIN historyCache \ lookups

HistoryResponse ==
    /\ Cardinality(Answered) < MaxResponses
    /\ \E url \in lookups, response \in HistoryResponses : OnHistoryResponse(url, response)
    /\ UNCHANGED <<hostVars, trustVars, pfVars, govVars, now, conn, perfNow, trkVars>>

GraceTimeout ==
    /\ \E url \in DOMAIN graceTimers : OnGraceTimeout(url)
    /\ UNCHANGED <<hostVars, trustVars, pfVars, govVars, now, conn, trkVars>>

Intersect == IntersectIn(PageLinks)

LineElapsed == {100}

MouseMoveLine == MouseMoveIn(LinePoints, LineElapsed)

InitPageIn(pages) ==
    /\ InitBattery
    /\ InitScroll
    /\ conn = Connection("4g", 100, FALSE)
    /\ InitTrust
    /\ InitPrefetcher
    /\ InitContext
    /\ perfNow = 0
    /\ InitTracker
    /\ \E anchors \in pages : document = anchors /\ InitPredictor(anchors)

InitPage == InitPageIn(Pages)

NextPredictor ==
    \/ MouseMoveLine
    \/ Mutation
    \/ Intersect
    \/ HistoryResponse
    \/ GraceTimeout

SpecPredictor == InitPage /\ [][NextPredictor]_vars

----------------------------------------------------------------------------
(* The LinkPredictor on a page of links of several sizes at several        *)
(* distances from a resting cursor.  With the cursor at (0,0) the distance *)
(* d of every link and its smaller side m make d/m + 1 a power of two, so  *)
(* that Math.log2 is exact.                                                *)

\* an anchor w x h whose centre is (centerX, 0)
Box(id, centerX, w, h) ==
    [Anchor(id, "e", "main", centerX) EXCEPT
        !.rect = [left |-> centerX - w \div 2, top |-> -(h \div 2),
                  width |-> w, height |-> h]]

\* 32 x 16 at d = 16 * (2^k - 1), k = 0..7; 64 x 32 and 16 x 32 links; an
\* empty anchor, 0 wide
FittsLinks ==
    << Box(1, 0, 32, 16), Box(2, 16, 32, 16), Box(3, 48, 32, 16), Box(4, 112, 32, 16),
       Box(5, 240, 32, 16), Box(6, 496, 32, 16), Box(7, 1008, 32, 16),
       Box(8, 2032, 32, 16),
       Box(9, 96, 64, 32), Box(10, 4064, 64, 32),
       Box(11, 48, 16, 32), Box(12, 16, 0, 16) >>

RestPoints == {Point(0, 0)}

FittsElapsed == {100, 400}

MutationFitts == MutationIn({FittsLinks})

IntersectFitts == IntersectIn(FittsLinks)

MouseMoveRest == MouseMoveIn(RestPoints, FittsElapsed)

NextFitts ==
    \/ MouseMoveRest
    \/ MutationFitts
    \/ IntersectFitts

SpecFitts == InitPageIn({<<>>}) /\ [][NextFitts]_vars

----------------------------------------------------------------------------
(* The LinkPredictor while the cursor approaches a link, rests next to it, *)
(* passes over it or leaves: three links with their centre at (112,0), two *)
(* of them of one URL, and the cursor at distance 112 or 16 on the line    *)

HoverLinks ==
    << Anchor(1, "e", "main", 112),
       Anchor(2, "a", "main", 112),
       Anchor(3, "a", "nav", 112) >>

HoverPoints == {Point(0, 0), Point(96, 0), Point(128, 0)}

HoverElapsed == {100, 200}

MutationHover == MutationIn({HoverLinks})

IntersectHover == IntersectIn(HoverLinks)

MouseMoveHover == MouseMoveIn(HoverPoints, HoverElapsed)

NextHover ==
    \/ MouseMoveHover
    \/ MutationHover
    \/ IntersectHover
    \/ GraceTimeout

SpecHover == InitPageIn({<<>>}) /\ [][NextHover]_vars

----------------------------------------------------------------------------
(* The LinkPredictor under calls that come sooner than the throttle        *)
(* interval (100 ms while the battery status is not read) and while the    *)
(* page is scrolled                                                        *)

ScrollSpeeds == {0, 101}

\* the user scrolls faster or stops; no content script listens
Scroll ==
    /\ \E v \in ScrollSpeeds \ {scrollSpeed} : scrollSpeed' = v
    /\ UNCHANGED <<trustVars, pfVars, govVars, now, conn, cntVars, battery, document>>

SkipElapsed == {50, 100}

MouseMoveSkip == MouseMoveIn(LinePoints, SkipElapsed)

NextSkip ==
    \/ MouseMoveSkip
    \/ Mutation
    \/ Intersect
    \/ GraceTimeout
    \/ Scroll

SpecSkip == InitPage /\ [][NextSkip]_vars

----------------------------------------------------------------------------
(* The throttle of the scoring batch: a page without links, the cursor at  *)
(* rest, the network and the battery changing between the mouse events     *)

ThrottleConnections ==
    {NoConn} \cup {Connection(t, 100, sd) : t \in {"4g", "3g", "2g", "slow-2g"},
                                            sd \in BOOLEAN}

\* the eight intervals, and 1 ms less than the shortest and the longest
ThrottleElapsed == {79, 80, 100, 120, 150, 160, 200, 240, 299, 300}

InitThrottle ==
    /\ conn \in ThrottleConnections
    /\ InitTrust
    /\ InitPrefetcher
    /\ InitContext
    /\ perfNow = 0
    /\ InitTracker
    /\ document = <<>>
    /\ InitPredictor(<<>>)
    /\ battery \in {Battery(TRUE, FALSE), Battery(FALSE, FALSE)}
    /\ InitScroll

BatteryStatus ==
    /\ \E ok \in BOOLEAN : OnBatteryStatus(ok)
    /\ UNCHANGED <<trustVars, pfVars, govVars, now, conn, perfNow, trkVars, scrollSpeed,
                   document>>

ChargingChange ==
    /\ OnChargingChange
    /\ UNCHANGED <<trustVars, pfVars, govVars, now, conn, perfNow, trkVars, scrollSpeed,
                   document>>

MouseMoveThrottle == MouseMoveIn(RestPoints, ThrottleElapsed)

NextThrottle ==
    \/ MouseMoveThrottle
    \/ BatteryStatus
    \/ ChargingChange

SpecThrottle == InitThrottle /\ [][NextThrottle]_vars

----------------------------------------------------------------------------
(* The TrustList alone *)

TrustLevelNames == {"trusted", "neutral", "untrusted"}

\* URLs of a neutral, a blacklisted and a default-trusted domain, and two
\* strings new URL() rejects: free text and a bare domain
NotAUrl    == Unparsable("not a url")
BareDomain == Unparsable("paypal.com")
TrustUrls  == {UrlSlash, UrlBlocked, Url("github.com", "", TRUE, "", FALSE),
               NotAUrl, BareDomain}

VisitCounts == {9, 10}

InitTrustAlone ==
    /\ conn = Connection("4g", 100, FALSE)
    /\ \E stored \in {NoLevels, MapSet(NoLevels, "example.com", "untrusted")} :
          InitTrustList(stored)
    /\ InitPrefetcher
    /\ InitContext
    /\ InitContent

LoadTrust ==
    /\ \E ok \in BOOLEAN : load(ok)
    /\ UNCHANGED <<hostVars, pfVars, govVars, now, conn, cntVars>>

SetTrustLevel ==
    /\ \E u \in TrustUrls, level \in TrustLevelNames : setTrustLevel(u, level)
    /\ UNCHANGED <<hostVars, pfVars, govVars, now, conn, cntVars>>

PromoteIfFrequent ==
    /\ \E u \in TrustUrls, n \in VisitCounts : promoteIfFrequent(_extractDomain(u), n)
    /\ UNCHANGED <<hostVars, pfVars, govVars, now, conn, cntVars>>

ResetTrust ==
    /\ reset
    /\ UNCHANGED <<hostVars, pfVars, govVars, now, conn, cntVars>>

NextTrust ==
    \/ LoadTrust
    \/ SetTrustLevel
    \/ PromoteIfFrequent
    \/ ResetTrust

SpecTrust == InitTrustAlone /\ [][NextTrust]_vars

----------------------------------------------------------------------------
(* The dedup index under hints for URLs written in every way *)

\* dnsPrefetch(url) / preconnect(url) called on their own
IssueHint(u, rel) ==
    /\ Leave([S |-> Hint(Here, u, rel), h |-> <<>>], handlers)
    /\ UNCHANGED <<received, loadPending>>

dnsPrefetch(u) == IssueHint(u, "dns-prefetch")

preconnect(u) == IssueHint(u, "preconnect")

\* https://a.com and https://a.com/x, each with and without the trailing
\* slash, without query, with a bare "?" and with two queries, with and
\* without fragment; and a string that does not parse
KeyUrls ==
    {Url("a.com", path, slash, query, frag) :
        path \in {"", "x"}, slash \in BOOLEAN, query \in {"", "?", "?q", "?r"},
        frag \in BOOLEAN} \cup {NotAUrl}

DnsPrefetch ==
    /\ \E u \in KeyUrls : dnsPrefetch(u)
    /\ UNCHANGED <<hostVars, trustVars, govVars, now, conn, cntVars>>

Preconnect ==
    /\ \E u \in KeyUrls : preconnect(u)
    /\ UNCHANGED <<hostVars, trustVars, govVars, now, conn, cntVars>>

NextKeys ==
    \/ DnsPrefetch
    \/ Preconnect

SpecKeys == Init /\ [][NextKeys]_vars

----------------------------------------------------------------------------
(* The orchestrator and the mode: batches suspended at their host calls    *)
(* while the mode is set or the network status changes; the read of the    *)
(* stored state stays pending                                              *)

NextBatch ==
    \/ PredictionUpdate
    \/ InjectResolves
    \/ InjectRejects
    \/ SetMode
    \/ SaveDataChange

SpecBatch == Init /\ [][NextBatch]_vars

----------------------------------------------------------------------------
(* The orchestrator given one candidate at a time, with a score on either  *)
(* side of every threshold of the three profiles, under every mode         *)

TierScores == {0, 29, 30, 39, 40, 49, 50, 59, 60, 69, 70, 79, 80, 84, 85, 99, 100}

PredictionTier ==
    /\ \E score \in TierScores :
          _handlePredictions(<<[url |-> UrlSlash, score |-> score]>>)
    /\ UNCHANGED <<hostVars, trustVars, govVars, now, conn, cntVars>>

NextTiers ==
    \/ PredictionTier
    \/ InjectResolves
    \/ InjectRejects
    \/ SetMode

SpecTiers == Init /\ [][NextTiers]_vars

----------------------------------------------------------------------------
(* The LinkPredictor on a page whose anchors come and go: the document is  *)
(* loaded with or without its links, and a DOM mutation adds them all or   *)
(* removes them all                                                        *)

MutationCatalog == MutationIn(Pages)

NextCatalog ==
    \/ MouseMoveLine
    \/ MutationCatalog
    \/ Intersect
    \/ GraceTimeout

SpecCatalog == InitPage /\ [][NextCatalog]_vars

----------------------------------------------------------------------------
(* The service worker at capacity: the directive of the slash URL was      *)
(* issued first in this run and nine more after it, so that it is the next *)
(* to be evicted                                                           *)

\* the collection and the index after those ten issuances: PushRule records
\* the URL as it was sent, _track its normalized form
FullRules ==
    <<[type |-> "prefetch", url |-> UrlSlash, timestamp |-> 0]>> \o Stored(maxRules - 1).rules

FullIndex ==
    [k \in {_normalize(FullRules[i].url) : i \in DOMAIN FullRules} |->
        [type |-> "prefetch", timestamp |-> 0]]

InitFull ==
    /\ conn = Connection("4g", 100, FALSE)
    /\ InitTrust
    /\ InitContext
    /\ InitContent
    /\ prefetchedUrls = FullIndex
    /\ activeSpeculationRules = FullRules
    /\ prefetchState = [present |-> TRUE, urls |-> FullIndex, rules |-> FullRules]
    /\ loadPending = FALSE
    /\ handlers = <<>>
    /\ received = 0
    /\ stats = 0
    /\ now = 0

NextFull ==
    \/ PredictionUpdate
    \/ RemoveSettles
    \/ InjectResolves
    \/ InjectRejects

SpecFull == InitFull /\ [][NextFull]_vars

----------------------------------------------------------------------------
(* Claims *)

\* the messages a step may have handled: none when it received no candidate
Arrived == IF received' = received THEN {} ELSE Batches

\* C1: in every reachable state the active-directive collection
\* (activeSpeculationRules) holds at most 10 entries, also when the handling
\* of several prediction messages overlaps at the host calls.
C1_AtMostCapacity == Len(activeSpeculationRules) <= maxRules

\* C2: an issuance that starts while the collection holds 10 entries (or
\* more) evicts exactly one entry, the earliest-inserted, the others keeping
\* their order; an issuance that starts below capacity evicts none; a
\* successful issuance appends its directive last; no other step of a handler
\* changes the collection.  `mid` is the collection after the step's append,
\* `started` says that the step went on to start a further issuance.
C2_Then(mid, started) ==
    \/ /\ activeSpeculationRules' = mid
       /\ started => Len(mid) < maxRules
    \/ /\ started
       /\ Len(mid) >= maxRules
       /\ activeSpeculationRules' = Tail(mid)
       /\ handlers'[Len(handlers')].pc = "remove"
       /\ handlers'[Len(handlers')].oldest = Head(mid)

C2_Step ==
    /\ \A links \in Arrived :
          _handlePredictions(links) =>
              C2_Then(activeSpeculationRules, Len(handlers') = Len(handlers) + 1)
    /\ \A i \in DOMAIN handlers :
          /\ RemoveSettled(i) => activeSpeculationRules' = activeSpeculationRules
          /\ InjectRejected(i) =>
                C2_Then(activeSpeculationRules, Len(handlers') = Len(handlers))
          /\ InjectResolved(i) =>
                C2_Then(Append(activeSpeculationRules,
                               [type |-> handlers[i].type, url |-> handlers[i].link.url,
                                timestamp |-> now]),
                        Len(handlers') = Len(handlers))

C2_FifoEviction == [][C2_Step]_vars

\* an issuance that started at capacity has recorded its directive
C2_Witness ==
    /\ Len(activeSpeculationRules) = maxRules
    /\ activeSpeculationRules[1] = Stored(maxRules - 1).rules[2]
    /\ activeSpeculationRules[maxRules].url \in Urls
    /\ activeSpeculationRules[maxRules - 1].url \in Urls

\* some rule of the collection is a directive for the normalized form of u
HasActiveDirective(u) ==
    \E i \in DOMAIN activeSpeculationRules :
        _normalize(activeSpeculationRules[i].url) = _normalize(u)

\* the tier the claims give a score under a profile
ClaimedTier(score, profile) ==
    CASE score >= profile.prerenderThreshold /\ profile.maxPrerender > 0 -> "prerender"
      [] /\ ~(score >= profile.prerenderThreshold /\ profile.maxPrerender > 0)
         /\ score >= profile.prefetchThreshold /\ profile.maxPrefetch > 0 -> "prefetch"
      [] /\ ~(score >= profile.prerenderThreshold /\ profile.maxPrerender > 0)
         /\ ~(score >= profile.prefetchThreshold /\ profile.maxPrefetch > 0)
         /\ score >= profile.preconnectThreshold -> "preconnect"
      [] /\ ~(score >= profile.prerenderThreshold /\ profile.maxPrerender > 0)
         /\ ~(score >= profile.prefetchThreshold /\ profile.maxPrefetch > 0)
         /\ score < profile.preconnectThreshold
         /\ score >= 30 -> "dns-prefetch"
      [] OTHER -> "none"

HeavyTiers == {"prerender", "prefetch"}
LightTiers == {"preconnect", "dns-prefetch"}

\* C3: a message whose one candidate is in the prefetch or prerender tier
\* and names a URL whose normalized form already has an active directive is
\* a no-op: the collection, the dedup index and the suspended handlers stay
\* as they are, so that no second entry for the URL comes to be.
C3_Step ==
    \A links \in Arrived :
        (/\ Len(links) = 1
         /\ ClaimedTier(links[1].score, getProfile) \in HeavyTiers
         /\ HasActiveDirective(links[1].url)
         /\ _handlePredictions(links))
        => /\ activeSpeculationRules' = activeSpeculationRules
           /\ prefetchedUrls' = prefetchedUrls
           /\ handlers' = handlers

C3_ActiveUrlIsNoOp == [][C3_Step]_vars

\* C4: no two active directives have the same normalized URL.
C4_OnePerNormalizedUrl ==
    \A i, j \in DOMAIN activeSpeculationRules :
        i # j => _normalize(activeSpeculationRules[i].url)
                 # _normalize(activeSpeculationRules[j].url)

\* C5: a URL whose record in the dedup index is more than 60 s old is not
\* reported as prefetched.
C5_ExpiredIsAbsent ==
    \A u \in Urls \cup {FillerUrl(i) : i \in 1..(maxRules - 1)} :
        (/\ _normalize(u) \in DOMAIN prefetchedUrls
         /\ now - prefetchedUrls[_normalize(u)].timestamp > maxAgeMs)
        => ~wasPrefetched(u)

\* C6: a candidate gets the first matching tier and no other: a message with
\* one candidate calls prerender, prefetch, preconnect, dns-prefetch or
\* nothing as the claimed chain says for its score under the profile in
\* force; every suspended call is the one the chain gives its candidate;
\* and a call that resolves records one directive, of that tier.  (Score 75
\* under balanced, thresholds 80/60/40, is a prefetch.)
C6_Frames ==
    \A i \in DOMAIN handlers :
        /\ handlers[i].type \in HeavyTiers
        /\ handlers[i].type = ClaimedTier(handlers[i].link.score, handlers[i].profile)

C6_Step ==
    /\ \A links \in Arrived :
          (Len(links) = 1 /\ _handlePredictions(links)) =>
            LET u    == links[1].url
                tier == ClaimedTier(links[1].score, getProfile)
            IN  /\ tier \in HeavyTiers =>
                      /\ prefetchedUrls' = prefetchedUrls
                      /\ \/ handlers' = handlers /\ activeSpeculationRules' = activeSpeculationRules
                         \/ /\ Len(handlers') = Len(handlers) + 1
                            /\ handlers'[Len(handlers')].type = tier
                            /\ handlers'[Len(handlers')].link = links[1]
                /\ tier \in LightTiers =>
                      /\ prefetchedUrls' = MapSet(prefetchedUrls, _normalize(u),
                                                  [type |-> tier, timestamp |-> now])
                      /\ handlers' = handlers
                      /\ activeSpeculationRules' = activeSpeculationRules
                /\ tier = "none" =>
                      UNCHANGED <<prefetchedUrls, handlers, activeSpeculationRules,
                                  prefetchState, stats>>
    /\ \A i \in DOMAIN handlers :
          InjectResolved(i) =>
            \E k \in DOMAIN activeSpeculationRules' :
               /\ k >= Len(activeSpeculationRules)
               /\ activeSpeculationRules'[k].type = handlers[i].type
               /\ activeSpeculationRules'[k].url = handlers[i].link.url
               /\ Len(activeSpeculationRules') <= Len(activeSpeculationRules) + 1

C6_FirstMatchingTier ==
    /\ ClaimedTier(75, profiles.balanced) = "prefetch"
    /\ [](C6_Frames) /\ [][C6_Step]_vars

\* score 75 under balanced: a prefetch was recorded for the candidate
C6_Witness ==
    /\ handlers = <<>>
    /\ received = 1
    /\ currentMode = "auto" /\ getProfile = profiles.balanced
    /\ Len(activeSpeculationRules) = 1
    /\ activeSpeculationRules[1].type = "prefetch"
    /\ activeSpeculationRules[1].url = UrlSlash
    /\ stats = 1

\* C7: every active prerender directive is for a URL Trust permits to
\* prerender, every active prefetch directive for one it permits to prefetch.
C7_TrustGates ==
    \A i \in DOMAIN activeSpeculationRules :
        LET r == activeSpeculationRules[i] IN
        /\ r.type = "prerender" => canPrerender(trustLevels, r.url)
        /\ r.type = "prefetch" => canPrefetch(trustLevels, r.url)

\* C8: while data saver is on, a call of prefetch or prerender starts no
\* issuance and leaves the collection and the dedup index as they are: a
\* message starts none and records none, and neither does the rest of a
\* batch that resumes; the preconnect and dns-prefetch hints of candidates
\* in those tiers are still issued and tracked.
C8_Step ==
    saveDataOn =>
      /\ \A links \in Arrived :
            _handlePredictions(links) =>
              /\ activeSpeculationRules' = activeSpeculationRules
              /\ handlers' = handlers
              /\ (\A k \in DOMAIN links :
                     ClaimedTier(links[k].score, getProfile) \notin LightTiers)
                  => /\ prefetchedUrls' = prefetchedUrls
                     /\ prefetchState' = prefetchState
              /\ \A k \in DOMAIN links :
                     ClaimedTier(links[k].score, getProfile) \in LightTiers
                     => /\ _normalize(links[k].url) \in DOMAIN prefetchedUrls'
                        /\ prefetchedUrls'[_normalize(links[k].url)].type \in LightTiers
                        /\ prefetchedUrls'[_normalize(links[k].url)].timestamp = now
              /\ (Len(links) = 1 /\ ClaimedTier(links[1].score, getProfile) \in LightTiers)
                  => prefetchedUrls' =
                        MapSet(prefetchedUrls, _normalize(links[1].url),
                               [type |-> ClaimedTier(links[1].score, getProfile),
                                timestamp |-> now])
      /\ \A i \in DOMAIN handlers :
            /\ InjectRejected(i) =>
                  /\ handlers' = Without(handlers, i)
                  /\ activeSpeculationRules' = activeSpeculationRules
            /\ InjectResolved(i) =>
                  /\ handlers' = Without(handlers, i)
                  /\ Len(activeSpeculationRules') = Len(activeSpeculationRules) + 1

C8_DataSaverVeto == [][C8_Step]_vars

\* data saver is on, a prefetch or prerender was attempted and nothing is
\* recorded or suspended, and a preconnect hint is tracked
C8_Witness ==
    /\ saveDataOn
    /\ received = 2 /\ stats = 1
    /\ handlers = <<>>
    /\ activeSpeculationRules = <<>>
    /\ DOMAIN prefetchedUrls = {UrlBlocked}
    /\ prefetchedUrls[UrlBlocked].type = "preconnect"

\* C9: the active prerender directives issued in this run are at most the
\* profile's maxPrerender, the active prefetch directives at most its
\* maxPrefetch (checked where the profile stays balanced: 1 and 5).
C9_Issued(type) ==
    {i \in DOMAIN activeSpeculationRules :
        /\ activeSpeculationRules[i].type = type
        /\ activeSpeculationRules[i].url \in Urls}

C9_Quotas ==
    /\ Cardinality(C9_Issued("prerender")) <= getProfile.maxPrerender
    /\ Cardinality(C9_Issued("prefetch")) <= getProfile.maxPrefetch

\* the mode the claim derives from a DeviceContext
ClaimedMode(cd) ==
    IF \/ (~cd.battery.charging /\ cd.battery.level < 20)
       \/ cd.network.saveData
       \/ cd.network.type \in {"2g", "slow-2g"}
       \/ cd.memory.usedPercent > 80
    THEN "eco"
    ELSE IF /\ cd.battery.charging
            /\ (cd.network.type = "4g" \/ cd.network.downlink > 50)
            /\ cd.memory.usedPercent < 50
         THEN "turbo"
         ELSE "balanced"

\* C10: while the mode is auto, getProfile returns the profile the rule
\* selects for the current contextData (eco before turbo before balanced).
C10_AutoProfile ==
    /\ ClaimedMode([InitContextData EXCEPT
                       !.battery = [charging |-> FALSE, level |-> 15]]) = "eco"
    /\ currentMode = "auto" => getProfile = profiles[ClaimedMode(contextData)]

\* auto again after a manual mode, discharging at 15 % on wifi: eco
C10_Witness ==
    /\ currentMode = "auto" /\ prefetchMode = "auto"
    /\ monitoring
    /\ contextData.battery = [charging |-> FALSE, level |-> 15]
    /\ contextData.network.type = "wifi"
    /\ getProfile = profiles.eco

\* C11: setMode with a value outside {turbo, balanced, eco, auto} changes
\* neither the current mode, nor the persisted mode, nor the profile
\* getProfile returns; with a value inside, the current mode and the
\* persisted mode become that value.
C11_Step ==
    \A mode \in Modes \cup {"max"} :
        setMode(mode) =>
            IF mode \in {"turbo", "balanced", "eco", "auto"}
            THEN /\ currentMode' = mode
                 /\ prefetchMode' = mode
            ELSE /\ currentMode' = currentMode
                 /\ prefetchMode' = prefetchMode
                 /\ getProfile' = getProfile

C11_SetModeValidates == [][C11_Step]_vars

\* turbo was set and persisted while the telemetry asks for eco
C11_Witness ==
    /\ currentMode = "turbo" /\ prefetchMode = "turbo"
    /\ DerivedMode(contextData) = "eco"
    /\ getProfile = profiles.turbo

\* C12: while the mode is turbo, balanced or eco, getProfile returns the
\* profile of that name, and a step that leaves the mode alone (a telemetry
\* update) leaves the returned profile alone; a setMode("auto") gives the
\* profile the rule derives from the contextData of that moment.
C12_Manual ==
    currentMode \in {"turbo", "balanced", "eco"} => getProfile = profiles[currentMode]

C12_Step ==
    /\ (currentMode \in {"turbo", "balanced", "eco"} /\ currentMode' = currentMode)
          => getProfile' = getProfile
    /\ setMode("auto") => getProfile' = profiles[ClaimedMode(contextData)]

C12_ManualOverride == [](C12_Manual) /\ [][C12_Step]_vars

\* eco by hand, the last derived mode stale and the telemetry asking for turbo
C12_Witness ==
    /\ currentMode = "eco"
    /\ effectiveMode = "balanced"
    /\ ClaimedMode(contextData) = "turbo"
    /\ getProfile = profiles.eco

\* C13: under the eco profile no prerender is issued, whatever the score:
\* every issuance of a handler that read the eco profile is a prefetch, for a
\* candidate at or above eco's prefetch threshold; and a message handled
\* under eco whose one candidate has score 100 (eco's prerender threshold)
\* is treated as a prefetch: it starts a prefetch issuance unless the URL is
\* a key of the dedup index or data saver is on.
C13_Frames ==
    \A i \in DOMAIN handlers :
        handlers[i].profile = profiles.eco =>
            /\ handlers[i].type = "prefetch"
            /\ handlers[i].link.score >= profiles.eco.prefetchThreshold

C13_Step ==
    \A links \in Arrived :
        (/\ getProfile = profiles.eco
         /\ Len(links) = 1
         /\ links[1].score >= profiles.eco.prerenderThreshold
         /\ _handlePredictions(links))
        => IF links[1].url \in DOMAIN prefetchedUrls \/ saveDataOn
           THEN /\ handlers' = handlers
                /\ activeSpeculationRules' = activeSpeculationRules
           ELSE /\ Len(handlers') = Len(handlers) + 1
                /\ handlers'[Len(handlers')].type = "prefetch"
                /\ handlers'[Len(handlers')].link = links[1]

C13_EcoNeverPrerenders ==
    /\ 100 \in Scores
    /\ [](C13_Frames) /\ [][C13_Step]_vars

\* a handler that read the eco profile is suspended in the prefetch it
\* issued for a candidate of score 100
C13_Witness ==
    \E i \in DOMAIN handlers :
        /\ handlers[i].profile = profiles.eco
        /\ handlers[i].link.score = 100
        /\ handlers[i].type = "prefetch"
        /\ handlers[i].pc = "inject"

\* C18: the tracker accepts a pointer-move event only if at least 16 ms have
\* passed since the last accepted one; an earlier event is dropped: no field
\* of the tracker (position, velocity, acceleration, direction, last
\* position, last velocity, last timestamp) changes and no subscriber is
\* invoked.
C18_Step ==
    MouseMove =>
      /\ perfNow' - lastTimestamp < 16 =>
            /\ <<position, velocity, acceleration, direction>>'
                 = <<position, velocity, acceleration, direction>>
            /\ <<lastPosition, lastVelocity, lastTimestamp>>'
                 = <<lastPosition, lastVelocity, lastTimestamp>>
            /\ delivered' = delivered
            /\ prdVars' = prdVars
      /\ delivered' # delivered => perfNow' - lastTimestamp >= 16

C18_CaptureThrottle == [][C18_Step]_vars

\* an event 15 ms after an accepted sample has been handled
C18_Witness ==
    /\ Len(delivered) >= 1
    /\ perfNow = lastTimestamp + 15
    /\ position # Point(0, 0)

\* C19: in the state delivered for an accepted sample, the decelerating flag
\* is true exactly when the sample's speed is below 0.8 times the speed of
\* the previous accepted sample (0 before the first).
C19_PreviousSpeed(n) == IF n = 1 THEN 0 ELSE delivered[n - 1].speed

C19_DeceleratingFlag ==
    \A n \in DOMAIN delivered :
        delivered[n].isDecelerating <=> 5 * delivered[n].speed < 4 * C19_PreviousSpeed(n)

\* C20: getIntentionScore(target) is 1 if and only if the target is the
\* current position; for every other target it lies in [-1, 1], and it is 0
\* when the speed is zero and the target is not the position.
C20_IntentionScore ==
    \A t \in Targets :
        /\ getIntentionScore(t.x, t.y) = 100 <=> t = position
        /\ getIntentionScore(t.x, t.y) \in -100..100
        /\ Speed(velocity) = 0 /\ t # position => getIntentionScore(t.x, t.y) = 0

\* C20, amended: 1 for the current position, for every other target in
\* [-1, 1], and 0 at zero speed for a target that is not the position.
C20_IntentionScoreRange ==
    \A t \in Targets :
        /\ t = position => getIntentionScore(t.x, t.y) = 100
        /\ getIntentionScore(t.x, t.y) \in -100..100
        /\ Speed(velocity) = 0 /\ t # position => getIntentionScore(t.x, t.y) = 0

\* the cursor moves and some target lies behind, some target straight ahead
C20_Witness ==
    /\ Speed(velocity) > 0
    /\ \E t \in Targets : getIntentionScore(t.x, t.y) < 0
    /\ \E t \in Targets : t # position /\ getIntentionScore(t.x, t.y) = 100

\* the step is a pointer move on which calculateScores ran a batch
Batch == (MouseMoveLine \/ MouseMoveHover) /\ lastBatchTime' # lastBatchTime

\* the cursor data of that batch
BatchData == delivered'[Len(delivered')]

\* the links the batch computed a final score for
Candidates ==
    {k \in DOMAIN linkMap : linkMap[k].isVisible /\ DistanceSq(linkMap[k], BatchData) <= 250000}

\* C14: every score stored in the score table, returned by getScore or sent
\* in a PREDICTION_UPDATE message lies in [0, 100], after any sequence of
\* batches, for any grace boost and any history score the lookup resolved to.
C14_ScoresInRange ==
    /\ \A u \in DOMAIN scores : scores[u].score \in 0..10000
    /\ \A u \in {"a", "e", "f", "top"} : getScore(u) \in 0..10000
    /\ \A m \in DOMAIN sent : \A i \in DOMAIN sent[m].links :
          sent[m].links[i].score \in 0..10000

\* a URL whose history score resolved to 1000 was scored, stored and sent at
\* 100 in the last batch
C14_Witness ==
    /\ sent # <<>>
    /\ \E u \in DOMAIN scores :
          /\ u \in DOMAIN historyCache
          /\ historyCache[u] = 1000
          /\ scores[u] = [score |-> 10000, timestamp |-> lastBatchTime]
          /\ \E i \in DOMAIN sent[Len(sent)].links :
                sent[Len(sent)].links[i] = [url |-> u, score |-> 10000]

\* C15: at most one grace timer exists per URL; while a URL's timer is
\* active, a further batch that meets the conditions of the boost for that
\* URL neither creates a second timer nor restarts or extends the first, and
\* adds no boost.
C15_Step ==
    /\ \A u \in DOMAIN graceTimers :
          u \in DOMAIN graceTimers' => graceTimers'[u] = graceTimers[u]
    /\ Batch =>
          \A k \in Candidates :
              linkMap[k].url \in DOMAIN graceTimers =>
                 linkMap'[k].score
                    = Min(10000, TotalScore(linkMap[k], BatchData, historyCache))

C16_Scored == {k \in Candidates : linkMap'[k].score > 3000}

\* the number of scored candidates that go before candidate k
C16_Rank(k) ==
    Cardinality({j \in C16_Scored :
                    \/ linkMap'[j].score > linkMap'[k].score
                    \/ linkMap'[j].score = linkMap'[k].score /\ j < k})

C16_Step ==
    Batch /\ sent' # sent =>
      LET links == sent'[Len(sent')].links IN
      /\ sent' = Append(sent, sent'[Len(sent')])
      /\ Len(links) <= 5
      /\ \A i, j \in DOMAIN links : i < j => links[i].score >= links[j].score
      /\ \A i \in DOMAIN links : \E k \in C16_Scored :
            /\ C16_Rank(k) = i - 1
            /\ links[i] = [url |-> linkMap[k].url, score |-> linkMap'[k].score]
      /\ \A k \in C16_Scored :
            C16_Rank(k) >= Len(links) =>
               \A i \in DOMAIN links : linkMap'[k].score <= links[i].score

C16_TopFive == [][C16_Step]_vars

\* seven links were scored above 30 in the last batch; the message has five
\* of them and begins with two of equal score and different URLs
C16_Witness ==
    /\ sent # <<>>
    /\ Cardinality({k \in DOMAIN linkMap : linkMap[k].isVisible /\ linkMap[k].score > 3000}) = 7
    /\ Len(sent[Len(sent)].links) = 5
    /\ sent[Len(sent)].links[1].score = sent[Len(sent)].links[2].score
    /\ sent[Len(sent)].links[1].url = "e"
    /\ sent[Len(sent)].links[2].url = "a"
    /\ scores["a"].timestamp = lastBatchTime
    /\ scores["a"].score = sent[Len(sent)].links[2].score

\* C17: after a batch that computes a final score of 30 or less for a
\* candidate (and for every candidate of the same URL), the score table has
\* no record for the candidate's URL, getScore gives 0 for it, whatever an
\* earlier batch stored, and the batch's message does not carry the URL.
C17_Step ==
    Batch =>
      \A k \in Candidates :
          (\A j \in Candidates :
               linkMap[j].url = linkMap[k].url => linkMap'[j].score <= 3000)
          => /\ linkMap[k].url \notin DOMAIN scores'
             /\ getScore(linkMap[k].url)' = 0
             /\ sent' # sent =>
                   \A i \in DOMAIN sent'[Len(sent')].links :
                       sent'[Len(sent')].links[i].url # linkMap[k].url

C17_LowScoresDropped == [][C17_Step]_vars

\* C21: when the injection of a prefetch or prerender is rejected, nothing
\* was evicted for the attempt (the collection and the dedup index are what
\* they were before it, also when the attempt started at capacity); the step
\* that catches the rejection changes neither when no candidate is left,
\* the next candidate of the batch is handled in the same step, and the URL
\* of the failed attempt has not become a key of the dedup index.
C21_Step ==
    \A i \in DOMAIN handlers :
        InjectRejected(i) =>
          LET h == handlers[i] IN
          /\ h.oldest = NoRule
          /\ h.links = <<>> =>
                /\ activeSpeculationRules' = activeSpeculationRules
                /\ prefetchedUrls' = prefetchedUrls
          /\ (h.links # <<>> /\ Tier(Head(h.links).score, h.profile) \in LightTiers)
                => _normalize(Head(h.links).url) \in DOMAIN prefetchedUrls'
          /\ (/\ h.links # <<>>
              /\ Tier(Head(h.links).score, h.profile) \in HeavyTiers
              /\ Head(h.links).url \notin DOMAIN prefetchedUrls
              /\ ~saveDataOn)
                => /\ Len(handlers') = Len(handlers)
                   /\ handlers'[Len(handlers')].link = Head(h.links)
          /\ (h.links = <<>> /\ _normalize(h.link.url) \notin DOMAIN prefetchedUrls)
                => _normalize(h.link.url) \notin DOMAIN prefetchedUrls'

C21_FailedIssuanceIsNoOp == [][C21_Step]_vars

\* what _saveState would write in the state at hand
Snapshot == [present |-> TRUE, urls |-> prefetchedUrls, rules |-> activeSpeculationRules]

\* C22: every step of a handler that changes the active-directive collection
\* or the dedup index (a directive pushed, the oldest evicted, a URL tracked
\* or forgotten) writes the state, so that after the step the stored
\* snapshot equals the in-memory collection and index.
C22_Step ==
    (/\ UNCHANGED loadPending
     /\ \/ activeSpeculationRules' # activeSpeculationRules
        \/ prefetchedUrls' # prefetchedUrls)
    => prefetchState' = Snapshot'

C22_SavedAfterMutation == [][C22_Step]_vars

\* C23: the load of the stored state only rehydrates: when it succeeds the
\* dedup index and the directive list become the stored ones, when it fails
\* they stay as they are (empty, if no message was handled yet); either way
\* the step starts no host call and writes nothing, and no host call is
\* started before the first prediction message.  After the load, failed or
\* not, a message with one candidate of the prefetch or prerender tier whose
\* URL is no key of the index starts an issuance (data saver off).
C23_Step ==
    /\ \A ok \in BOOLEAN :
          _loadState(ok) =>
            /\ UNCHANGED <<handlers, stats, prefetchState>>
            /\ (ok /\ Persisted.present) =>
                  /\ prefetchedUrls' = Persisted.urls
                  /\ activeSpeculationRules' = Persisted.rules
            /\ ~ok =>
                  /\ UNCHANGED <<prefetchedUrls, activeSpeculationRules>>
                  /\ received = 0 =>
                        prefetchedUrls' = EmptyMap /\ activeSpeculationRules' = <<>>
    /\ \A links \in Arrived :
          (/\ _handlePredictions(links)
           /\ ~loadPending
           /\ Len(links) = 1
           /\ Tier(links[1].score, getProfile) \in HeavyTiers
           /\ links[1].url \notin DOMAIN prefetchedUrls
           /\ ~saveDataOn)
          => /\ Len(handlers') = Len(handlers) + 1
             /\ handlers'[Len(handlers')].link = links[1]

C23_Quiet == received = 0 => (handlers = <<>> /\ stats = 0)

C23_RestartOnlyRehydrates == [][C23_Step]_vars /\ []C23_Quiet

\* the load has failed (the in-memory state is empty although a state is
\* stored) and the issuance for the one candidate received is under way
C23_Witness ==
    /\ ~loadPending
    /\ received = 1
    /\ prefetchState = Stored(maxRules - 1)
    /\ prefetchedUrls = EmptyMap
    /\ activeSpeculationRules = <<>>
    /\ Len(handlers) = 1
    /\ handlers[1].pc = "inject"

\* C24: for a URL that does not parse and has no explicit setting, the trust
\* level is neutral and neither prefetch nor prerender is permitted.  (The
\* TrustList has no test for dns-prefetch and preconnect: nothing forbids
\* them.)
C24_FailClosed ==
    \A u \in TrustUrls :
        (~Parses(u) /\ _extractDomain(u) \notin DOMAIN trustLevels)
        => /\ getTrustLevel(trustLevels, u) = "neutral"
           /\ ~canPrefetch(trustLevels, u)
           /\ ~canPrerender(trustLevels, u)

\* URL.search: empty for a URL without query and for a bare "?"
Search(u) == IF u.query = "?" THEN "" ELSE u.query

SameButQuery(u, v) ==
    /\ Parses(u) /\ Parses(v)
    /\ u.host = v.host /\ Pathname(u) = Pathname(v)

\* C25 as stated: URLs that differ in their query have different keys, so
\* that when only one of them was tracked the other is not reported.
C25_QueryDistinct ==
    \A u, v \in KeyUrls :
        (SameButQuery(u, v) /\ u.query # v.query)
        => /\ _normalize(u) # _normalize(v)
           /\ DOMAIN prefetchedUrls = {_normalize(u)} => ~wasPrefetched(v)

\* C25: a URL of a non-root path has the same key with and without its
\* trailing slash; the key has no fragment and is the same with and without
\* one; URLs that differ in their search string (a bare "?" has none) have
\* different keys; wasPrefetched and getPrefetchType answer the same for
\* two URLs of the same key.
C25_NormalizedKey ==
    /\ \A u \in KeyUrls :
          Parses(u) =>
            /\ u.path # "" => _normalize([u EXCEPT !.slash = TRUE])
                              = _normalize([u EXCEPT !.slash = FALSE])
            /\ ~_normalize(u).frag
            /\ _normalize([u EXCEPT !.frag = TRUE]) = _normalize([u EXCEPT !.frag = FALSE])
            /\ Search(_normalize(u)) = Search(u)
    /\ \A u, v \in KeyUrls :
          /\ (SameButQuery(u, v) /\ Search(u) # Search(v)) => _normalize(u) # _normalize(v)
          /\ _normalize(u) = _normalize(v) =>
                /\ wasPrefetched(u) = wasPrefetched(v)
                /\ getPrefetchType(u) = getPrefetchType(v)

\* a hint for https://a.com/x/?q#... was tracked and one for ?r was not:
\* https://a.com/x?q is reported, with its type, and https://a.com/x?r is not
C25_Witness ==
    /\ DOMAIN prefetchedUrls = {Url("a.com", "x", FALSE, "?q", FALSE)}
    /\ wasPrefetched(Url("a.com", "x", TRUE, "?q", TRUE))
    /\ getPrefetchType(Url("a.com", "x", FALSE, "?q", FALSE)) = "preconnect"
    /\ ~wasPrefetched(Url("a.com", "x", FALSE, "?r", FALSE))
    /\ ~wasPrefetched(Url("a.com", "", TRUE, "?q", FALSE))

\* the cursor's distance from link d and the Fitts score the batch gives d
DistanceOf(d) == Sqrt(DistanceSq(d, [position |-> position]))

FittsOf(d) == _calculateFittsScore(DistanceOf(d), d.rect.width, d.rect.height)

\* C26: the Fitts score of every link lies in [0,100]; it is 0 for a link
\* whose smaller side is 0 or less; of two links of the same width and
\* height the farther one does not score higher; and it is
\* clamp(100 - 15*log2(d/min(w,h) + 1), 0, 100): 100, 85, ..., 10, 0 at
\* d/min(w,h) + 1 = 1, 2, ..., 64, 128.
C26_FittsScore ==
    \A j \in DOMAIN linkMap :
        LET d == linkMap[j]
            m == Min(d.rect.width, d.rect.height)
        IN  /\ FittsOf(d) \in 0..100
            /\ m <= 0 => FittsOf(d) = 0
            /\ m > 0 =>
                  \E k \in 0..8 :
                      /\ DistanceOf(d) = m * (2^k - 1)
                      /\ FittsOf(d) = IF k <= 6 THEN 100 - 15 * k ELSE 0
            /\ \A i \in DOMAIN linkMap :
                  (/\ linkMap[i].rect.width = d.rect.width
                   /\ linkMap[i].rect.height = d.rect.height
                   /\ DistanceOf(linkMap[i]) >= DistanceOf(d))
                  => FittsOf(linkMap[i]) <= FittsOf(d)

\* a batch has scored the twelve links of the page, all in view
C26_Witness ==
    /\ Len(linkMap) = 12
    /\ \A j \in DOMAIN linkMap : linkMap[j].isVisible
    /\ lastBatchTime > 0
    /\ sent # <<>>
    /\ FittsOf(linkMap[1]) = 100
    /\ FittsOf(linkMap[8]) = 0
    /\ FittsOf(linkMap[12]) = 0
    /\ linkMap[1].score > linkMap[2].score

\* 80 ms, times 2, times 1.5 and times 1.25 as the three conditions hold
ClaimedInterval(saver, slow, unplugged) ==
    CASE ~saver /\ ~slow /\ ~unplugged -> 80
      [] ~saver /\ ~slow /\ unplugged  -> 100
      [] ~saver /\ slow  /\ ~unplugged -> 120
      [] ~saver /\ slow  /\ unplugged  -> 150
      [] saver  /\ ~slow /\ ~unplugged -> 160
      [] saver  /\ ~slow /\ unplugged  -> 200
      [] saver  /\ slow  /\ ~unplugged -> 240
      [] saver  /\ slow  /\ unplugged  -> 300

SlowNetwork == conn.present /\ conn.effectiveType \in {"slow-2g", "2g", "3g"}

\* a call of calculateScores in this step ran the batch
BatchRan == delivered' # delivered /\ lastBatchTime' = perfNow'

\* C27 as stated: the interval is 80 ms times 2 with data saver on, times 1.5
\* on 2g, slow-2g or 3g, times 1.25 when the device is unplugged, and a
\* batch runs only if that much time has passed since the last one.
C27_StepStated ==
    BatchRan => perfNow' - lastBatchTime
                >= ClaimedInterval(saveDataOn, SlowNetwork, ~battery.charging)

C27_IntervalStated ==
    /\ [](currentInterval = ClaimedInterval(saveDataOn, SlowNetwork, ~battery.charging))
    /\ [][C27_StepStated]_vars

\* C27: the interval is 80 ms times 2 with data saver on, times 1.5 on 2g,
\* slow-2g or 3g, times 1.25 unless the predictor's isCharging is true (the
\* battery status was read and says charging, or could not be read); while
\* the chargingchange listener is attached isCharging is the battery's
\* status; the interval is at most 300 ms; a batch runs only if that much
\* time has passed since the last one.
C27_Step ==
    BatchRan => perfNow' - lastBatchTime
                >= ClaimedInterval(saveDataOn, SlowNetwork, isCharging # "true")

C27_Interval ==
    /\ [](/\ currentInterval = ClaimedInterval(saveDataOn, SlowNetwork, isCharging # "true")
          /\ currentInterval <= 300
          /\ battery.listening => isCharging = BoolName(battery.charging))
    /\ [][C27_Step]_vars

\* data saver on a slow network, the device unplugged and its status read:
\* a batch ran at 300 ms and the call 299 ms later ran none
C27_Witness ==
    /\ saveDataOn /\ SlowNetwork
    /\ battery = Battery(FALSE, TRUE) /\ isCharging = "false"
    /\ Len(delivered) = 2
    /\ delivered[1].timestamp = 300
    /\ delivered[2].timestamp = 599
    /\ lastBatchTime = 300

\* a call of calculateScores was made in this step, at the time perfNow'
Called == subscribed /\ delivered' # delivered

\* C28: a call of calculateScores made before the throttle interval has
\* passed, or while the scroll speed exceeds 100, is skipped and changes
\* nothing: the links' scores, the score records, the grace timers and the
\* messages sent stay as they are, and so does the time of the last batch.
C28_Step ==
    (/\ Called
     /\ \/ perfNow' - lastBatchTime < currentInterval
        \/ scrollSpeed > 100)
    => UNCHANGED <<linkMap, scores, graceTimers, sent, lastBatchTime>>

C28_SkipChangesNothing == [][C28_Step]_vars

\* the new composite of candidate k in the batch of this step
Composite(k) == TotalScore(linkMap[k], BatchData, historyCache)

\* the candidates of k's URL that the batch scores before k
Earlier(k) == {j \in Candidates : j < k /\ linkMap[j].url = linkMap[k].url}

\* the score the table holds for k's URL when the batch comes to k: the one
\* the last earlier candidate of the URL stored in this batch, or else the
\* one an earlier batch left; -1 for none
StoredBefore(k) ==
    LET w == {j \in Earlier(k) : linkMap'[j].score > 3000} IN
    IF w # {} THEN linkMap'[CHOOSE j \in w : \A i \in w : i <= j].score
    ELSE IF linkMap[k].url \in DOMAIN scores THEN scores[linkMap[k].url].score
    ELSE -1

\* cursor speed < 50, new composite > 50, stored score above the composite
Eligible(k) ==
    /\ BatchData.speed < 50
    /\ Composite(k) > 5000
    /\ StoredBefore(k) > Composite(k)

\* ... and no timer active for the URL: none from before the batch, none
\* started for an earlier candidate of the URL
Boosted(k) ==
    /\ Eligible(k)
    /\ linkMap[k].url \notin DOMAIN graceTimers
    /\ \A j \in Earlier(k) : ~Eligible(j)

\* C29: in a batch a candidate gets the boost exactly when the cursor speed
\* is below 50, its new composite exceeds 50, no grace timer is active for
\* its URL and the score stored for the URL exceeds the composite; then a
\* timer is started that fires 200 ms later and the final score is
\* min(100, stored score).  Otherwise the final score is the new composite
\* (100 if a history score above 100 lifts the composite over 100), and a
\* URL none of whose candidates gets the boost gets no timer.
C29_Step ==
    Batch =>
      \A k \in Candidates :
        LET u == linkMap[k].url IN
        /\ Boosted(k) =>
              /\ linkMap'[k].score = Min(10000, StoredBefore(k))
              /\ u \in DOMAIN graceTimers'
              /\ graceTimers'[u] = perfNow' + GRACE_PERIOD_MS
        /\ ~Boosted(k) =>
              /\ linkMap'[k].score = Min(10000, Composite(k))
              /\ _getHistoryScore(historyCache, u) \in 0..100 =>
                    linkMap'[k].score = Composite(k)
        /\ (\A j \in Candidates : linkMap[j].url = u => ~Boosted(j))
              => (u \in DOMAIN graceTimers' <=> u \in DOMAIN graceTimers)

Emitted(u) ==
    IF sent' = sent THEN {}
    ELSE {sent'[Len(sent')].links[i].score :
             i \in {j \in DOMAIN sent'[Len(sent')].links :
                       sent'[Len(sent')].links[j].url = u}}

\* C30: a batch that starts the grace timer of a URL, and every batch that
\* scores a candidate of the URL before the timer has run out, stores and
\* emits for the URL a score not lower than the one stored before it, so
\* that the score preserved at the start of the timer is held until the
\* timer expires; the timer's expiry removes it.
C30_Step ==
    /\ Batch =>
          \A k \in Candidates :
              LET u == linkMap[k].url IN
              (/\ u \in DOMAIN graceTimers'
               /\ u \in DOMAIN graceTimers => perfNow' < graceTimers[u]
               /\ u \in DOMAIN scores)
              => /\ u \in DOMAIN scores'
                 /\ scores'[u].score >= scores[u].score
                 /\ \A x \in Emitted(u) : x >= scores[u].score
    /\ \A u \in DOMAIN graceTimers :
          OnGraceTimeout(u) => u \notin DOMAIN graceTimers'

C30_GraceHoldsScore == [][C30_Step]_vars

\* C31: before the lookup of a URL is answered the history score of the URL
\* is 40; a response carrying a value v in [0,100], v = 0 included, makes v
\* the history score the batches use from then on, and an answered URL is
\* never looked up again.
C31_Step ==
    /\ \A url \in lookups, response \in HistoryResponses :
          (/\ OnHistoryResponse(url, response)
           /\ response.present
           /\ response.score \in 0..100)
          => _getHistoryScore(historyCache', url) = response.score
    /\ \A url \in Answered :
          /\ url \notin lookups'
          /\ _getHistoryScore(historyCache', url) = _getHistoryScore(historyCache, url)

C31_HistoryScore ==
    /\ [](\A url \in lookups : _getHistoryScore(historyCache, url) = 40)
    /\ [][C31_Step]_vars

\* C32: a batch is handled under the profile read when its handling starts.
\* A frame suspended at a host call carries that profile; a mode change or
\* a telemetry update leaves the suspended frames as they are; and when the
\* call settles every remaining candidate the handler gets to is given the
\* tier of its score under the carried profile, whatever the profile in
\* force by then: a candidate of a lighter tier has its hint recorded, one
\* of the prefetch or prerender tier is either suspended at its call or
\* found in the index (data saver off).  A message that arrives after the
\* change is handled under the new profile.
C32_Resumed(h) ==
    LET resumed == Len(handlers') = Len(handlers)
        frame   == handlers'[Len(handlers')]
        \* the candidates the step has dealt with
        done    == IF resumed THEN Len(h.links) - Len(frame.links) - 1 ELSE Len(h.links)
        tier(j) == ClaimedTier(h.links[j].score, h.profile)
    IN  /\ resumed =>
              /\ done >= 0
              /\ frame.link = h.links[done + 1]
              /\ frame.links = SubSeq(h.links, done + 2, Len(h.links))
              /\ frame.profile = h.profile
              /\ frame.type = tier(done + 1)
              /\ frame.type \in HeavyTiers
        /\ \A j \in 1..done :
              /\ (tier(j) \in HeavyTiers /\ ~saveDataOn) =>
                    h.links[j].url \in DOMAIN prefetchedUrls'
              /\ (/\ tier(j) \in LightTiers
                  /\ \A later \in (j + 1)..done :
                        _normalize(h.links[later].url) = _normalize(h.links[j].url)
                        => tier(later) \notin LightTiers)
                 => /\ _normalize(h.links[j].url) \in DOMAIN prefetchedUrls'
                    /\ prefetchedUrls'[_normalize(h.links[j].url)].type = tier(j)
        /\ (done = 1 /\ tier(1) = "none"
               /\ _normalize(h.links[1].url) # _normalize(h.link.url)) =>
              /\ _normalize(h.links[1].url) \in DOMAIN prefetchedUrls'
                    <=> _normalize(h.links[1].url) \in DOMAIN prefetchedUrls
              /\ _normalize(h.links[1].url) \in DOMAIN prefetchedUrls =>
                    prefetchedUrls'[_normalize(h.links[1].url)]
                       = prefetchedUrls[_normalize(h.links[1].url)]

C32_Step ==
    /\ \A links \in Arrived :
          (_handlePredictions(links) /\ Len(handlers') = Len(handlers) + 1) =>
             /\ handlers'[Len(handlers')].profile = getProfile
             /\ SubSeq(handlers', 1, Len(handlers)) = handlers
    /\ govVars' # govVars => handlers' = handlers
    /\ \A i \in DOMAIN handlers :
          /\ RemoveSettled(i) => handlers'[i].profile = handlers[i].profile
          /\ InjectResolved(i) => C32_Resumed(handlers[i])
          /\ InjectRejected(i) => C32_Resumed(handlers[i])

C32_ProfileSnapshot == [][C32_Step]_vars

\* the batch whose first candidate was issued under balanced is suspended at
\* its second candidate, a prefetch under balanced, while eco, under which
\* the candidate's score is a preconnect, is in force
C32_Witness ==
    /\ getProfile = profiles.eco
    /\ Len(handlers) = 1
    /\ handlers[1].statsUpdated
    /\ handlers[1].profile = profiles.balanced
    /\ handlers[1].link = [url |-> UrlBlocked, score |-> 75]
    /\ handlers[1].type = "prefetch"
    /\ ClaimedTier(75, getProfile) = "preconnect"
    /\ Len(activeSpeculationRules) >= 1
    /\ activeSpeculationRules[Len(activeSpeculationRules)].url = UrlSlash

\* the collection after the step starts with the entries it had before it,
\* the first `dropped` of them left out
C33_Kept(dropped) ==
    /\ Len(activeSpeculationRules) >= dropped
    /\ Len(activeSpeculationRules') >= Len(activeSpeculationRules) - dropped
    /\ SubSeq(activeSpeculationRules', 1, Len(activeSpeculationRules) - dropped)
          = SubSeq(activeSpeculationRules, dropped + 1, Len(activeSpeculationRules))

\* C33: a recorded directive goes only by capacity eviction or by expiry.
\* A step either keeps every entry of the active-directive collection or is
\* an eviction at capacity, which takes the first entry alone (the step may
\* have appended the entry that filled the collection, and leaves it one
\* short of its capacity or full); and a
\* prefetch or prerender record of the dedup index stays a prefetch or
\* prerender record of its key unless the step completes the eviction of
\* the directive of that URL.  (No step of the service worker expires a
\* record: nothing calls clearOldPrefetches.)  A mode change, a lighter
\* hint for the URL, a failed issuance and the completion of the load of the
\* persisted state are steps like any other.
C33_Step ==
    /\ \/ C33_Kept(0)
       \/ /\ Len(activeSpeculationRules) >= maxRules - 1
          /\ Len(activeSpeculationRules') >= maxRules - 1
          /\ C33_Kept(1)
    /\ \A k \in DOMAIN prefetchedUrls :
          prefetchedUrls[k].type \in HeavyTiers =>
            \/ /\ k \in DOMAIN prefetchedUrls'
               /\ prefetchedUrls'[k].type \in HeavyTiers
            \/ \E i \in DOMAIN handlers :
                  RemoveSettled(i) /\ handlers[i].oldest.url = k

C33_OnlyEvictionOrExpiry == [][C33_Step]_vars

\* how heavy a tier is: none < dns-prefetch < preconnect < prefetch < prerender
TierWeight(tier) ==
    CASE tier = "prerender"    -> 4
      [] tier = "prefetch"     -> 3
      [] tier = "preconnect"   -> 2
      [] tier = "dns-prefetch" -> 1
      [] OTHER                 -> 0

\* turbo is the least strict profile, eco the strictest
Strictness(profile) ==
    CASE profile = profiles.turbo    -> 1
      [] profile = profiles.balanced -> 2
      [] profile = profiles.eco      -> 3

\* C34: the three profiles are ordered by strictness: each threshold grows
\* from turbo over balanced to eco and each quota shrinks; and for every
\* score from 0 to 100 the tier the score selects under the profile in force
\* is at least as heavy as under every stricter profile and at most as heavy
\* as under every less strict one.
C34_StrictnessOrder ==
    /\ \A f \in {"prerenderThreshold", "prefetchThreshold", "preconnectThreshold"} :
          /\ profiles.turbo[f] <= profiles.balanced[f]
          /\ profiles.balanced[f] <= profiles.eco[f]
    /\ \A f \in {"maxPrerender", "maxPrefetch"} :
          /\ profiles.turbo[f] >= profiles.balanced[f]
          /\ profiles.balanced[f] >= profiles.eco[f]
    /\ \A score \in 0..100 :
          \A m \in {"turbo", "balanced", "eco"} :
              /\ Strictness(profiles[m]) >= Strictness(getProfile) =>
                    TierWeight(Tier(score, profiles[m]))
                       <= TierWeight(Tier(score, getProfile))
              /\ Strictness(profiles[m]) <= Strictness(getProfile) =>
                    TierWeight(Tier(score, profiles[m]))
                       >= TierWeight(Tier(score, getProfile))

\* under turbo a candidate of score 70 is suspended at its prerender; the
\* score is a prefetch under balanced and a preconnect under eco
C34_Witness ==
    /\ getProfile = profiles.turbo
    /\ Len(handlers) = 1
    /\ handlers[1].link.score = 70
    /\ handlers[1].profile = getProfile
    /\ handlers[1].type = "prerender"
    /\ Tier(70, profiles.balanced) = "prefetch"
    /\ Tier(70, profiles.eco) = "preconnect"

\* C35: stats.totalPrefetches counts the directives issued: a step in which
\* an injection resolves, and so records a directive, adds exactly one;
\* every other step (a message whose candidates are vetoed by data saver or
\* name a URL of the index, a rejected injection, a settled removal, a mode
\* change) leaves the counter as it is.
C35_Step ==
    stats' = stats + (IF \E i \in DOMAIN handlers : InjectResolved(i) THEN 1 ELSE 0)

C35_CountsIssued == [][C35_Step]_vars

\* the elements of a catalog
Catalogued(links) == {links[i].element : i \in DOMAIN links}

\* the entry of element e in a catalog that holds it
EntryOf(links, e) == links[CHOOSE i \in DOMAIN links : links[i].element = e]

\* C36: a batch computes a score only for the links of the catalog whose
\* latest intersection signal was "visible" and whose centre is within
\* 500 px of the cursor: the other entries stay as they are, and a URL the
\* batch records or sends is the URL of such a link.  Only an intersection
\* signal changes the visibility of an entry, and a link enters the catalog
\* invisible, so that it is not scored before its first "visible" signal.
\* A reconciliation after a structural change leaves no link in the catalog
\* that is not in the document, so that a removed link is never scored again.
C36_Step ==
    /\ Batch =>
          /\ Catalogued(linkMap') = Catalogued(linkMap)
          /\ \A k \in DOMAIN linkMap \ Candidates : linkMap'[k] = linkMap[k]
          /\ \A u \in DOMAIN scores' :
                (u \notin DOMAIN scores \/ scores'[u] # scores[u])
                => \E k \in Candidates : linkMap[k].url = u
          /\ sent' # sent =>
                \A i \in DOMAIN sent'[Len(sent')].links :
                    \E k \in Candidates :
                        linkMap[k].url = sent'[Len(sent')].links[i].url
    /\ ~Batch => (scores' = scores /\ sent' = sent)
    /\ \A e \in Catalogued(linkMap') :
          IF e \in Catalogued(linkMap)
          THEN \/ Intersect
               \/ EntryOf(linkMap', e).isVisible = EntryOf(linkMap, e).isVisible
          ELSE ~EntryOf(linkMap', e).isVisible

\* every link of the catalog is an anchor of the document
C36_Reconciled == Catalogued(linkMap) \subseteq Elements(document)

C36_OnlyVisibleNearby == []C36_Reconciled /\ [][C36_Step]_vars

\* C37: a URL that only has a lighter hint (dns-prefetch or preconnect)
\* recorded is not held back by dedup: a message whose one candidate names
\* the URL with a score of the prefetch or prerender tier starts the
\* issuance of that directive (data saver off), and when the host call
\* resolves the directive is in the active-directive collection.
C37_Step ==
    /\ \A links \in Arrived :
          (/\ _handlePredictions(links)
           /\ Len(links) = 1
           /\ ClaimedTier(links[1].score, getProfile) \in HeavyTiers
           /\ getPrefetchType(links[1].url) \in LightTiers
           /\ ~saveDataOn)
          => /\ Len(handlers') = Len(handlers) + 1
             /\ handlers'[Len(handlers')].link = links[1]
             /\ handlers'[Len(handlers')].type = ClaimedTier(links[1].score, getProfile)
    /\ \A i \in DOMAIN handlers :
          InjectResolved(i) =>
             \E k \in DOMAIN activeSpeculationRules' :
                /\ activeSpeculationRules'[k].url = handlers[i].link.url
                /\ activeSpeculationRules'[k].type = handlers[i].type

C37_HintDoesNotBlock == [][C37_Step]_vars

\* C38: for every directive of the active-directive collection,
\* getPrefetchType of its URL is the directive's type and the record of the
\* URL in the dedup index carries the directive's timestamp; and no step
\* turns the prefetch or prerender record of a URL whose directive stays
\* active into the record of a preconnect or dns-prefetch hint, or renews
\* its timestamp for such a hint.
C38_Recorded ==
    \A i \in DOMAIN activeSpeculationRules :
        LET r == activeSpeculationRules[i] IN
        /\ getPrefetchType(r.url) = r.type
        /\ prefetchedUrls[_normalize(r.url)].timestamp = r.timestamp

C38_Step ==
    \A k \in DOMAIN prefetchedUrls :
        (/\ prefetchedUrls[k].type \in HeavyTiers
         /\ \E i \in DOMAIN activeSpeculationRules :
               _normalize(activeSpeculationRules[i].url) = k
         /\ \E i \in DOMAIN activeSpeculationRules' :
               _normalize(activeSpeculationRules'[i].url) = k
         /\ k \in DOMAIN prefetchedUrls')
        => \/ prefetchedUrls'[k] = prefetchedUrls[k]
           \/ prefetchedUrls'[k].type \in HeavyTiers

C38_TypeOfActiveDirective == []C38_Recorded /\ [][C38_Step]_vars

\* C39: the dedup index and the active-directive collection agree: every
\* directive of the collection has a record under the normalized form of
\* its URL; and when the eviction of a directive completes, wasPrefetched
\* of its URL is false and the URL is no key of the index, so that dedup
\* does not hold back a new issuance for it, whether or not the URL ends in
\* a slash (unless another directive of the URL is still active).
C39_Indexed ==
    \A i \in DOMAIN activeSpeculationRules :
        _normalize(activeSpeculationRules[i].url) \in DOMAIN prefetchedUrls

C39_Step ==
    \A i \in DOMAIN handlers :
        (/\ RemoveSettled(i)
         /\ \A k \in DOMAIN activeSpeculationRules' :
               _normalize(activeSpeculationRules'[k].url)
                  # _normalize(handlers[i].oldest.url))
        => /\ _normalize(handlers[i].oldest.url) \notin DOMAIN prefetchedUrls'
           /\ handlers[i].oldest.url \notin DOMAIN prefetchedUrls'

C39_IndexMatchesCollection == []C39_Indexed /\ [][C39_Step]_vars

\* C40: the status snapshot is self-consistent: the effectiveMode that
\* getStatus reports names one of the three profiles, and the profile it
\* reports is that profile, in auto mode and after a switch from auto to a
\* manual mode.
C40_StatusConsistent ==
    /\ getStatus.effectiveMode \in DOMAIN profiles
    /\ getStatus.profile = profiles[getStatus.effectiveMode]

====
